---- MODULE Spec2Model ----
(***************************************************************************)
(* Model of the sysfs firmware-attributes access layer                     *)
(* (src/src/sysfs_firmware_attributes.rs): the property codec, root        *)
(* validation, the facade operations of AttributeParser, the construction  *)
(* of attributes and authentications, and the cached typed accessors       *)
(* current_value / write_current_value.                                    *)
(*                                                                         *)
(* A string is a sequence of atoms.  An atom is either one character that  *)
(* the code treats specially ("\n", ";", ":", "-", "+", a decimal digit)   *)
(* or a word that contains none of them ("a", "enumeration", ...).         *)
(* An Option is a sequence of length 0 (None) or 1 (Some).                 *)
(* A Result is a record [tag, val]: tag "Ok" with the value, or the name   *)
(* of the AttributeError variant with its payload.                         *)
(***************************************************************************)
EXTENDS Integers, Sequences, FiniteSets, TLC

VARIABLES
    fs,                   \* the pseudo-filesystem below the root
    attr,                 \* Option: the attribute object the caller holds
    current_value_cache,  \* Option: the value cache of that attribute object
    auth,                 \* Option: the authentication object the caller holds
    ret,                  \* the last call of the program: [op, arg, res]
    touched,              \* the paths that call looked at or wrote
    last,                 \* the last step: the call's name, or "external"
    before,               \* what the last read or write found: [op, ok, ext, cached]
    lock,                 \* the thread that holds the mutex of the cache, 0 when free
    pc,                   \* where each thread is in the call it is making
    fetched,              \* Option: the `value` the closure of each thread's read returned
    status,               \* the interior of the Status record: [message, reboot_required]
    app                   \* the Application: its state, access mode and controls

vars == <<fs, attr, current_value_cache, auth, ret, touched, last, before,
          lock, pc, fetched, status, app>>

(***************************************************************************)
(* Bounds of the model.                                                    *)
(***************************************************************************)
\* longest string written through a String or Enumeration attribute
MaxLen == 2
\* longest list written through an OrderedList or EnumerationList attribute
MaxItems == 2
\* longest content an external writer (the firmware driver) stores
ExtLen == 2
\* integers -IntRange..IntRange are written besides the two i32 extremes
IntRange == 1
\* threads that call current_value and write_current_value on clones of one
\* attribute
NThreads == 2

(***************************************************************************)
(* Program constants.                                                      *)
(***************************************************************************)
POSSIBLE_VALUES_DELIMITER == ";"
ENUMERATION_VALUES_DELIMITER == ":"
SYSFS_END_LINE == "\n"

DEFAULT_INTEGER_MIN_VALUE == 0
DEFAULT_INTEGER_MAX_VALUE == 2147483647
DEFAULT_INTEGER_SCALAR_INCREMENT == 1
DEFAULT_MIN_STRING_LENGTH == 0
DEFAULT_MAX_STRING_LENGTH == 128
DEFAULT_MIN_PASSWORD_LENGTH == 0
DEFAULT_MAX_PASSWORD_LENGTH == 128

PATH_ATTRIBUTES == "attributes"
PATH_AUTHENTICATIONS == "authentication"
ENUMERATION_LIST_ATTRIBUTES == {"BootOrder"}

TYPE_ENUMERATION == <<"enumeration">>
TYPE_INTEGER == <<"integer">>
TYPE_STRING == <<"string">>
TYPE_ORDERED_LIST == <<"ordered-list">>
TYPE_ENUMERATION_LIST == <<"enumeration-list">>

PROPERTY_CURRENT_VALUE == "current_value"
PROPERTY_CURRENT_PASSWORD == "current_password"
PROPERTY_DEFAULT_VALUE == "default_value"
PROPERTY_DISPLAY_NAME == "display_name"

I32_MAX == 2147483647
I32_MIN == -I32_MAX - 1

(***************************************************************************)
(* Options and results.                                                    *)
(***************************************************************************)
None == <<>>
Some(v) == <<v>>
IsSome(o) == Len(o) = 1
Ok(v) == [tag |-> "Ok", val |-> v]
Err(kind, payload) == [tag |-> kind, val |-> payload]
IsOk(r) == r.tag = "Ok"

(***************************************************************************)
(* String helpers.                                                         *)
(***************************************************************************)
RECURSIVE StrsUpTo(_, _)
StrsUpTo(chars, n) ==
    IF n = 0 THEN {<<>>}
    ELSE LET shorter == StrsUpTo(chars, n - 1)
         IN  shorter \cup {Append(s, c) : s \in shorter, c \in chars}

\* a trim that removes one trailing occurrence only
RECURSIVE trim_end_matches_once(_)
trim_end_matches_once(s) ==
    IF Len(s) > 0 /\ s[Len(s)] = SYSFS_END_LINE
    THEN SubSeq(s, 1, Len(s) - 1)
    ELSE s

\* str::trim_end_matches("\n"): removes every trailing occurrence
RECURSIVE trim_end_matches(_)
trim_end_matches(s) ==
    IF Len(s) > 0 /\ s[Len(s)] = SYSFS_END_LINE
    THEN trim_end_matches(SubSeq(s, 1, Len(s) - 1))
    ELSE s

\* a split that drops the empty segments
RECURSIVE split_nonempty(_, _)
split_nonempty(s, d) ==
    IF \E i \in 1..Len(s) : s[i] = d
    THEN LET i == CHOOSE k \in 1..Len(s) :
                       s[k] = d /\ \A j \in 1..(k - 1) : s[j] # d
         IN  (IF i = 1 THEN <<>> ELSE <<SubSeq(s, 1, i - 1)>>)
             \o split_nonempty(SubSeq(s, i + 1, Len(s)), d)
    ELSE IF Len(s) = 0 THEN <<>> ELSE <<s>>

\* str::split(d): the segments between the occurrences of d, empty ones kept
RECURSIVE split(_, _)
split(s, d) ==
    IF \E i \in 1..Len(s) : s[i] = d
    THEN LET i == CHOOSE k \in 1..Len(s) :
                       s[k] = d /\ \A j \in 1..(k - 1) : s[j] # d
         IN  <<SubSeq(s, 1, i - 1)>> \o split(SubSeq(s, i + 1, Len(s)), d)
    ELSE <<s>>

\* [String]::join(d)
RECURSIVE join(_, _)
join(v, d) ==
    IF Len(v) = 0 THEN <<>>
    ELSE IF Len(v) = 1 THEN v[1]
    ELSE v[1] \o <<d>> \o join(Tail(v), d)

(***************************************************************************)
(* Integer conversions: i32::from_str, usize::from_str, i32::to_string.    *)
(***************************************************************************)
Digits == <<"0", "1", "2", "3", "4", "5", "6", "7", "8", "9">>
IsDigit(c) == \E i \in 1..10 : Digits[i] = c
DigitOf(c) == (CHOOSE i \in 1..10 : Digits[i] = c) - 1

\* checked_mul(10) then checked_add(d): -1 stands for the overflow
RECURSIVE AccumulatePos(_, _)
AccumulatePos(acc, ds) ==
    IF Len(ds) = 0 THEN acc
    ELSE LET d == DigitOf(ds[1])
         IN  IF acc > I32_MAX \div 10 THEN -1
             ELSE IF acc * 10 > I32_MAX - d THEN -1
             ELSE AccumulatePos(acc * 10 + d, Tail(ds))

\* checked_mul(10) then checked_sub(d): 1 stands for the overflow
RECURSIVE AccumulateNeg(_, _)
AccumulateNeg(acc, ds) ==
    IF Len(ds) = 0 THEN acc
    ELSE LET d == DigitOf(ds[1])
         IN  IF acc < -(I32_MAX \div 10) THEN 1
             ELSE IF acc * 10 < I32_MIN + d THEN 1
             ELSE AccumulateNeg(acc * 10 - d, Tail(ds))

i32_from_str(s) ==
    IF Len(s) = 0 THEN Err("ParseIntError", "Empty")
    ELSE LET signed == s[1] \in {"+", "-"}
             ds == IF signed THEN Tail(s) ELSE s
         IN  IF Len(ds) = 0 \/ \E i \in 1..Len(ds) : ~IsDigit(ds[i])
             THEN Err("ParseIntError", "InvalidDigit")
             ELSE IF s[1] = "-"
             THEN LET n == AccumulateNeg(0, ds)
                  IN  IF n = 1 THEN Err("ParseIntError", "NegOverflow") ELSE Ok(n)
             ELSE LET n == AccumulatePos(0, ds)
                  IN  IF n = -1 THEN Err("ParseIntError", "PosOverflow") ELSE Ok(n)

\* usize is wider than the integers of the model; the numeric metadata of the
\* model stays below 2^31, where usize::from_str differs from i32::from_str
\* only in refusing a minus sign
usize_from_str(s) ==
    IF Len(s) > 0 /\ s[1] = "-" THEN Err("ParseIntError", "InvalidDigit")
    ELSE i32_from_str(s)

\* the decimal digits of -n for n <= 0, most significant first
RECURSIVE DigitsOfNeg(_)
DigitsOfNeg(n) ==
    LET d == (10 - (n % 10)) % 10
        r == (n + d) \div 10
    IN  IF r = 0 THEN <<Digits[d + 1]>> ELSE Append(DigitsOfNeg(r), Digits[d + 1])

to_string(n) ==
    IF n < 0 THEN <<"-">> \o DigitsOfNeg(n) ELSE DigitsOfNeg(-n)

(***************************************************************************)
(* The pseudo-filesystem.  A path is the sequence of names below the root  *)
(* handed to the facade; fs maps every path of the model to its node.      *)
(***************************************************************************)
AttrNames == {"BootOrder", "Setting"}
AuthNames == {"Admin"}
AttrProps == {"type", "current_value", "default_value", "display_name",
              "display_name_language_code", "possible_values", "elements",
              "min_value", "max_value", "scalar_increment",
              "min_length", "max_length"}
AuthProps == {"is_enabled", "role", "mechanism", "min_password_length",
              "max_password_length", "current_password"}

Root == <<>>
AttrDir(name) == <<PATH_ATTRIBUTES, name>>
AuthDir(name) == <<PATH_AUTHENTICATIONS, name>>

AllPaths ==
    {<<PATH_ATTRIBUTES>>, <<PATH_AUTHENTICATIONS>>, <<PATH_ATTRIBUTES, "pending_reboot">>}
    \cup {AttrDir(n) : n \in AttrNames}
    \cup {Append(AttrDir(n), p) : n \in AttrNames, p \in AttrProps}
    \cup {AuthDir(n) : n \in AuthNames}
    \cup {Append(AuthDir(n), p) : n \in AuthNames, p \in AuthProps}

Absent == [kind |-> "absent", content |-> <<>>]
Dir == [kind |-> "dir", content |-> <<>>]
File(c) == [kind |-> "file", content |-> c]
\* a file the system lets a process read but refuses to write
ReadOnly(c) == [kind |-> "file", content |-> c, readonly |-> TRUE]

\* Path::exists
exists(f, path) == path = Root \/ (path \in DOMAIN f /\ f[path].kind # "absent")
\* Path::is_dir
is_dir(f, path) == path = Root \/ (path \in DOMAIN f /\ f[path].kind = "dir")
\* whether fs::write on an existing path succeeds
writable(f, path) == f[path].kind = "file" /\ "readonly" \notin DOMAIN f[path]

\* the order in which fs::read_dir yields the entries of a directory
ReadDirOrder == <<"pending_reboot", "Setting", "BootOrder", "Admin",
                  "thinklmi", "attributes", "dell-wmi-sysman", "authentication">>

(***************************************************************************)
(* Property codec.                                                         *)
(***************************************************************************)
read_attribute_property(f, root, property) ==
    LET path == Append(root, property)
    IN  IF exists(f, path)
        THEN IF f[path].kind = "file"
             THEN Ok(trim_end_matches(f[path].content))
             ELSE Err("IOError", path)
        ELSE Err("MissingFile", path)

try_read_attribute_property(f, root, property) ==
    LET path == Append(root, property)
    IN  IF exists(f, path)
        THEN IF f[path].kind = "file"
             THEN Ok(Some(trim_end_matches(f[path].content)))
             ELSE Err("IOError", path)
        ELSE Ok(None)

\* a write that ends the value with a line terminator
write_attribute_property_terminated(f, root, property, value) ==
    LET path == Append(root, property)
    IN  IF exists(f, path)
        THEN IF writable(f, path)
             THEN [result |-> Ok(<<>>),
                   fs |-> [f EXCEPT ![path] = File(Append(value, SYSFS_END_LINE))]]
             ELSE [result |-> Err("IOError", path), fs |-> f]
        ELSE [result |-> Err("MissingFile", path), fs |-> f]

\* a write that creates the file it does not find
write_attribute_property_creating(f, root, property, value) ==
    LET path == Append(root, property)
    IN  IF exists(f, path) /\ ~writable(f, path)
        THEN [result |-> Err("IOError", path), fs |-> f]
        ELSE [result |-> Ok(<<>>), fs |-> [f EXCEPT ![path] = File(value)]]

\* the result and the filesystem it leaves
write_attribute_property(f, root, property, value) ==
    LET path == Append(root, property)
    IN  IF exists(f, path)
        THEN IF writable(f, path)
             THEN [result |-> Ok(<<>>), fs |-> [f EXCEPT ![path] = File(value)]]
             ELSE [result |-> Err("IOError", path), fs |-> f]
        ELSE [result |-> Err("MissingFile", path), fs |-> f]

(***************************************************************************)
(* Root validation and directory listing.                                  *)
(***************************************************************************)
is_firmware_attributes_root(f, root) ==
    exists(f, Append(root, PATH_AUTHENTICATIONS)) /\ exists(f, Append(root, PATH_ATTRIBUTES))

\* the paths is_firmware_attributes_root looks at: && evaluates its right
\* operand only when the left one holds
is_firmware_attributes_root_touched(f, root) ==
    {Append(root, PATH_AUTHENTICATIONS)}
    \cup IF exists(f, Append(root, PATH_AUTHENTICATIONS))
         THEN {Append(root, PATH_ATTRIBUTES)} ELSE {}

\* a listing that keeps every entry, the regular files too
directories_names_all(f, path) ==
    IF exists(f, path) /\ is_dir(f, path)
    THEN LET keep == {i \in 1..Len(ReadDirOrder) :
                          exists(f, Append(path, ReadDirOrder[i]))}
             Pick[i \in 0..Len(ReadDirOrder)] ==
                 IF i = 0 THEN <<>>
                 ELSE IF i \in keep THEN Append(Pick[i - 1], ReadDirOrder[i])
                 ELSE Pick[i - 1]
         IN  Ok(Pick[Len(ReadDirOrder)])
    ELSE Err("MissingDirectory", path)

directories_names(f, path) ==
    IF exists(f, path) /\ is_dir(f, path)
    THEN LET keep == {i \in 1..Len(ReadDirOrder) :
                          is_dir(f, Append(path, ReadDirOrder[i]))}
             Pick[i \in 0..Len(ReadDirOrder)] ==
                 IF i = 0 THEN <<>>
                 ELSE IF i \in keep THEN Append(Pick[i - 1], ReadDirOrder[i])
                 ELSE Pick[i - 1]
         IN  Ok(Pick[Len(ReadDirOrder)])
    ELSE Err("MissingDirectory", path)

\* the directory itself and every entry of it whose metadata is read
directories_names_touched(f, path) ==
    {path} \cup IF exists(f, path) /\ is_dir(f, path)
                THEN {Append(path, n) : n \in {ReadDirOrder[i] : i \in 1..Len(ReadDirOrder)}}
                         \cap {q \in DOMAIN f : exists(f, q)}
                ELSE {}

\* the base location autodetect_root starts from
PATH_SYSFS_FIRMWARE_ATTRIBUTES == <<"sys", "class", "firmware-attributes">>

\* for dir in dirs { if is_firmware_attributes_root(&dir.path()) { push } }:
\* the entries of root that validate, in the order read_dir yields them
Scan(f, root) ==
    LET keep == {i \in 1..Len(ReadDirOrder) :
                     /\ exists(f, Append(root, ReadDirOrder[i]))
                     /\ is_firmware_attributes_root(f, Append(root, ReadDirOrder[i]))}
        Pick[i \in 0..Len(ReadDirOrder)] ==
            IF i = 0 THEN <<>>
            ELSE IF i \in keep THEN Append(Pick[i - 1], Append(root, ReadDirOrder[i]))
            ELSE Pick[i - 1]
    IN  Pick[Len(ReadDirOrder)]

\* a detection that scans the entries of a base that is itself a root
autodetect_root_scanning(f) ==
    IF exists(f, PATH_SYSFS_FIRMWARE_ATTRIBUTES)
    THEN (IF is_firmware_attributes_root(f, PATH_SYSFS_FIRMWARE_ATTRIBUTES)
          THEN <<PATH_SYSFS_FIRMWARE_ATTRIBUTES>> ELSE <<>>)
         \o (IF is_dir(f, PATH_SYSFS_FIRMWARE_ATTRIBUTES)
             THEN Scan(f, PATH_SYSFS_FIRMWARE_ATTRIBUTES) ELSE <<>>)
    ELSE <<>>

\* autodetect_root: read_dir succeeds on a directory; on anything else the
\* if let Ok(dirs) leaves the list empty
autodetect_root(f) ==
    IF exists(f, PATH_SYSFS_FIRMWARE_ATTRIBUTES)
    THEN IF is_firmware_attributes_root(f, PATH_SYSFS_FIRMWARE_ATTRIBUTES)
         THEN <<PATH_SYSFS_FIRMWARE_ATTRIBUTES>>
         ELSE IF is_dir(f, PATH_SYSFS_FIRMWARE_ATTRIBUTES)
         THEN Scan(f, PATH_SYSFS_FIRMWARE_ATTRIBUTES)
         ELSE <<>>
    ELSE <<>>

(***************************************************************************)
(* Construction.  A constructor is a sequence of steps, each reading one   *)
(* property and yielding a Result; the ? operator returns the first error. *)
(***************************************************************************)
Step(path, res) == [path |-> path, res |-> res]

\* run the steps in order: the first error, or Ok with every step's value,
\* and the paths looked at until then
Run(steps) ==
    LET bad == {i \in 1..Len(steps) : ~IsOk(steps[i].res)}
    IN  IF bad = {}
        THEN [res |-> Ok([i \in 1..Len(steps) |-> steps[i].res.val]),
              touched |-> {steps[i].path : i \in 1..Len(steps)}]
        ELSE LET first == CHOOSE i \in bad : \A j \in bad : i <= j
             IN  [res |-> steps[first].res,
                  touched |-> {steps[i].path : i \in 1..first}]

\* .map(|s| s.split(d).collect()) on what try_read_attribute_property(..)? gave
map_split(r, d) ==
    IF IsOk(r) /\ IsSome(r.val) THEN Ok(Some(split(r.val[1], d))) ELSE r

ReadOptionalList(f, root, property, d) ==
    map_split(try_read_attribute_property(f, root, property), d)

\* T::from_str for the two number types the constructors parse
from_str(type, s) == IF type = "i32" THEN i32_from_str(s) ELSE usize_from_str(s)

\* Option<Result<T, E>>::transpose()? of a value that was present
transpose(n) == IF IsOk(n) THEN Ok(Some(n.val)) ELSE n

\* .map(|s| T::from_str(s)).transpose()? on what try_read_attribute_property(..)? gave
map_from_str(r, type) ==
    IF IsOk(r) /\ IsSome(r.val) THEN transpose(from_str(type, r.val[1])) ELSE r

ReadOptionalNumber(f, root, property, type) ==
    map_from_str(try_read_attribute_property(f, root, property), type)

\* a defaulting that also replaces a value that failed to parse
unwrap_or_on_error(r, default) ==
    IF IsOk(r) THEN Ok(IF IsSome(r.val) THEN r.val[1] ELSE default)
    ELSE IF r.tag = "ParseIntError" THEN Ok(default) ELSE r

\* .unwrap_or(default) behind the ? operator
unwrap_or(r, default) ==
    IF IsOk(r) THEN Ok(IF IsSome(r.val) THEN r.val[1] ELSE default) ELSE r

attribute_name(root) == root[Len(root)]

\* the steps every CommonAttribute<T> constructor takes after default_value
CommonSteps(f, path, default_step) ==
    <<default_step,
      Step(Append(path, PROPERTY_DISPLAY_NAME),
           try_read_attribute_property(f, path, PROPERTY_DISPLAY_NAME)),
      Step(Append(path, "display_name_language_code"),
           try_read_attribute_property(f, path, "display_name_language_code"))>>

CommonAttribute(path, vals) ==
    [path |-> path,
     name |-> attribute_name(path),
     default_value |-> vals[1],
     display_name |-> vals[2],
     display_name_language_code |-> vals[3]]

\* TryFrom<PathBuf> for CommonAttribute (String)
CommonAttributeStringSteps(f, path) ==
    CommonSteps(f, path,
        Step(Append(path, PROPERTY_DEFAULT_VALUE),
             try_read_attribute_property(f, path, PROPERTY_DEFAULT_VALUE)))

\* TryFrom<PathBuf> for CommonAttribute<Vec<String>>
CommonAttributeVecSteps(f, path) ==
    CommonSteps(f, path,
        Step(Append(path, PROPERTY_DEFAULT_VALUE),
             ReadOptionalList(f, path, PROPERTY_DEFAULT_VALUE, POSSIBLE_VALUES_DELIMITER)))

\* TryFrom<PathBuf> for CommonAttribute<i32>
CommonAttributeI32Steps(f, path) ==
    CommonSteps(f, path,
        Step(Append(path, PROPERTY_DEFAULT_VALUE),
             ReadOptionalNumber(f, path, PROPERTY_DEFAULT_VALUE, "i32")))

\* try_read_attribute_property(&value, "possible_values")?.map_or(Vec::new(), split)
PossibleValuesStep(f, path) ==
    Step(Append(path, "possible_values"),
         unwrap_or(ReadOptionalList(f, path, "possible_values", POSSIBLE_VALUES_DELIMITER),
                   <<>>))

\* Ok(Self { common_attribute, possible_values }) once every step succeeded
EnumerationAttributeFrom(path, run) ==
    [touched |-> run.touched,
     res |-> IF IsOk(run.res)
             THEN Ok([tag |-> "Enumeration",
                      common_attribute |-> CommonAttribute(path, run.res.val),
                      possible_values |-> run.res.val[4]])
             ELSE run.res]

\* TryFrom<PathBuf> for EnumerationAttribute
EnumerationAttribute(f, path) ==
    EnumerationAttributeFrom(path,
        Run(CommonAttributeStringSteps(f, path) \o <<PossibleValuesStep(f, path)>>))

\* elements?.or(possible_values?).map_or(Vec::new(), split): Option::or
\* evaluates its argument, so possible_values is read whether or not
\* elements exists
ElementsSteps(path, elements, fallback) ==
    <<Step(Append(path, "elements"), elements),
      Step(Append(path, "possible_values"),
           IF IsOk(fallback) /\ IsOk(elements)
           THEN Ok(IF IsSome(elements.val)
                   THEN split(elements.val[1], POSSIBLE_VALUES_DELIMITER)
                   ELSE IF IsSome(fallback.val)
                   THEN split(fallback.val[1], POSSIBLE_VALUES_DELIMITER)
                   ELSE <<>>)
           ELSE fallback)>>

\* Ok(Self { common_attribute, elements }) once every step succeeded
OrderedListAttributeFrom(path, run) ==
    [touched |-> run.touched,
     res |-> IF IsOk(run.res)
             THEN Ok([tag |-> "OrderedList",
                      common_attribute |-> CommonAttribute(path, run.res.val),
                      elements |-> run.res.val[5]])
             ELSE run.res]

\* TryFrom<PathBuf> for OrderedListAttribute
OrderedListAttribute(f, path) ==
    OrderedListAttributeFrom(path,
        Run(CommonAttributeVecSteps(f, path)
            \o ElementsSteps(path,
                             try_read_attribute_property(f, path, "elements"),
                             try_read_attribute_property(f, path, "possible_values"))))

\* Ok(Self { common_attribute, possible_values }) once every step succeeded
EnumerationListAttributeFrom(path, run) ==
    [touched |-> run.touched,
     res |-> IF IsOk(run.res)
             THEN Ok([tag |-> "EnumerationList",
                      common_attribute |-> CommonAttribute(path, run.res.val),
                      possible_values |-> run.res.val[4]])
             ELSE run.res]

\* TryFrom<PathBuf> for EnumerationListAttribute
EnumerationListAttribute(f, path) ==
    EnumerationListAttributeFrom(path,
        Run(CommonSteps(f, path,
                Step(Append(path, PROPERTY_DEFAULT_VALUE),
                     ReadOptionalList(f, path, PROPERTY_DEFAULT_VALUE,
                                      ENUMERATION_VALUES_DELIMITER)))
            \o <<PossibleValuesStep(f, path)>>))

\* try_read_attribute_property(..)?.map(parse).transpose()?.unwrap_or(default)
NumberStep(f, path, property, type, default) ==
    Step(Append(path, property),
         unwrap_or(ReadOptionalNumber(f, path, property, type), default))

\* Ok(Self { .. }) once every step succeeded
IntegerAttributeFrom(path, run) ==
    [touched |-> run.touched,
     res |-> IF IsOk(run.res)
             THEN Ok([tag |-> "Integer",
                      common_attribute |-> CommonAttribute(path, run.res.val),
                      min_value |-> run.res.val[4],
                      max_value |-> run.res.val[5],
                      scalar_increment |-> run.res.val[6]])
             ELSE run.res]

\* TryFrom<PathBuf> for IntegerAttribute
IntegerAttribute(f, path) ==
    IntegerAttributeFrom(path,
        Run(CommonAttributeI32Steps(f, path)
            \o <<NumberStep(f, path, "min_value", "i32", DEFAULT_INTEGER_MIN_VALUE),
                 NumberStep(f, path, "max_value", "i32", DEFAULT_INTEGER_MAX_VALUE),
                 NumberStep(f, path, "scalar_increment", "i32",
                            DEFAULT_INTEGER_SCALAR_INCREMENT)>>))

\* Ok(Self { .. }) once every step succeeded
StringAttributeFrom(path, run) ==
    [touched |-> run.touched,
     res |-> IF IsOk(run.res)
             THEN Ok([tag |-> "String",
                      common_attribute |-> CommonAttribute(path, run.res.val),
                      min_length |-> run.res.val[4],
                      max_length |-> run.res.val[5],
                      hint |-> run.res.val[6]])
             ELSE run.res]

\* TryFrom<PathBuf> for StringAttribute
StringAttribute(f, path) ==
    StringAttributeFrom(path,
        Run(CommonAttributeStringSteps(f, path)
            \o <<NumberStep(f, path, "min_length", "usize", DEFAULT_MIN_STRING_LENGTH),
                 NumberStep(f, path, "max_length", "usize", DEFAULT_MAX_STRING_LENGTH),
                 Step(Append(path, "possible_values"),
                      try_read_attribute_property(f, path, "possible_values"))>>))

\* a classification without the name-based override
attribute_type_raw(f, root) == read_attribute_property(f, root, "type")

\* the override of attribute_type applied to the type string read
Reclassified(root, attribute_type_read) ==
    IF ~IsOk(attribute_type_read) THEN attribute_type_read
    ELSE IF attribute_type_read.val = TYPE_ENUMERATION
            /\ attribute_name(root) \in ENUMERATION_LIST_ATTRIBUTES
    THEN Ok(TYPE_ENUMERATION_LIST)
    ELSE attribute_type_read

\* the type string an attribute is dispatched on
attribute_type(f, root) ==
    Reclassified(root, read_attribute_property(f, root, "type"))

\* a match whose last arm builds a String attribute from any other type
Dispatch_lenient(f, value, t) ==
    IF ~IsOk(t) THEN [touched |-> {}, res |-> t]
    ELSE IF t.val = TYPE_ENUMERATION THEN EnumerationAttribute(f, value)
    ELSE IF t.val = TYPE_INTEGER THEN IntegerAttribute(f, value)
    ELSE IF t.val = TYPE_ORDERED_LIST THEN OrderedListAttribute(f, value)
    ELSE IF t.val = TYPE_ENUMERATION_LIST THEN EnumerationListAttribute(f, value)
    ELSE StringAttribute(f, value)

\* match attribute_type(&value)?.as_str() { .. }
Dispatch(f, value, t) ==
    IF ~IsOk(t) THEN [touched |-> {}, res |-> t]
    ELSE IF t.val = TYPE_ENUMERATION THEN EnumerationAttribute(f, value)
    ELSE IF t.val = TYPE_INTEGER THEN IntegerAttribute(f, value)
    ELSE IF t.val = TYPE_STRING THEN StringAttribute(f, value)
    ELSE IF t.val = TYPE_ORDERED_LIST THEN OrderedListAttribute(f, value)
    ELSE IF t.val = TYPE_ENUMERATION_LIST THEN EnumerationListAttribute(f, value)
    ELSE [touched |-> {}, res |-> Err("UnsupportedAttributeType", t.val)]

\* a result together with the paths looked at before it was computed
Looked(paths, made) == [touched |-> paths \cup made.touched, res |-> made.res]

\* TryFrom<PathBuf> for Attribute: the result and the paths looked at
AttributeTryFrom(f, value) ==
    IF exists(f, value) /\ is_dir(f, value)
    THEN Looked({value, Append(value, "type")},
                Dispatch(f, value, attribute_type(f, value)))
    ELSE [touched |-> {value}, res |-> Err("MissingDirectory", value)]

(***************************************************************************)
(* Authentication.                                                         *)
(***************************************************************************)
Roles == {<<"bios-admin">>, <<"power-on">>, <<"system-mgmt">>, <<"system">>,
          <<"hdd">>, <<"nvme">>, <<"enhanced-bios-auth">>}
Mechanisms == {<<"password">>}

\* a from_str that accepts every string
variant_from_str_open(r, variants) == r

\* strum's from_str over the closed set of variants
variant_from_str(r, variants) ==
    IF ~IsOk(r) THEN r
    ELSE IF r.val \in variants THEN r
    ELSE Err("VariantNotFount", <<>>)

\* read_attribute_property(..)? then from_str
EnumStep(f, path, property, variants) ==
    Step(Append(path, property),
         variant_from_str(read_attribute_property(f, path, property), variants))

\* a comparison that takes everything but "0" for true
eq_one_nonzero(r) == IF IsOk(r) THEN Ok(r.val # <<"0">>) ELSE r

\* read_attribute_property(..)?.eq("1")
eq_one(r) == IF IsOk(r) THEN Ok(r.val = <<"1">>) ELSE r

\* Ok(Self { .. }) once every step succeeded
AuthenticationFrom(path, run) ==
    [touched |-> run.touched,
     res |-> IF IsOk(run.res)
             THEN Ok([path |-> path,
                      login |-> attribute_name(path),
                      is_enabled |-> run.res.val[1],
                      role |-> run.res.val[2],
                      mechanism |-> run.res.val[3],
                      min_password_length |-> run.res.val[4],
                      max_password_length |-> run.res.val[5]])
             ELSE run.res]

\* TryFrom<PathBuf> for Authentication: the result and the paths looked at
AuthenticationTryFrom(f, path) ==
    AuthenticationFrom(path,
        Run(<<Step(Append(path, "is_enabled"),
                   eq_one(read_attribute_property(f, path, "is_enabled"))),
              EnumStep(f, path, "role", Roles),
              EnumStep(f, path, "mechanism", Mechanisms),
              NumberStep(f, path, "min_password_length", "usize",
                         DEFAULT_MIN_PASSWORD_LENGTH),
              NumberStep(f, path, "max_password_length", "usize",
                         DEFAULT_MAX_PASSWORD_LENGTH)>>))

(***************************************************************************)
(* The facade operations of AttributeParser: the result and the paths      *)
(* looked at.                                                              *)
(***************************************************************************)
InvalidRoot(f, path) ==
    [touched |-> is_firmware_attributes_root_touched(f, path),
     res |-> Err("InvalidRoot", path)]

\* a facade operation that skips the validation of the root
Gated_unvalidated(f, path, body) == body

\* if is_firmware_attributes_root(path) { body } else { Err(InvalidRoot) }
Gated(f, path, body) ==
    IF is_firmware_attributes_root(f, path)
    THEN Looked(is_firmware_attributes_root_touched(f, path), body)
    ELSE InvalidRoot(f, path)

attributes_names(f, path) ==
    Gated(f, path,
          [touched |-> directories_names_touched(f, Append(path, PATH_ATTRIBUTES)),
           res |-> directories_names(f, Append(path, PATH_ATTRIBUTES))])

authentications_names(f, path) ==
    Gated(f, path,
          [touched |-> directories_names_touched(f, Append(path, PATH_AUTHENTICATIONS)),
           res |-> directories_names(f, Append(path, PATH_AUTHENTICATIONS))])

attribute(f, path, name) ==
    Gated(f, path, AttributeTryFrom(f, path \o <<PATH_ATTRIBUTES, name>>))

authentication(f, path, name) ==
    Gated(f, path, AuthenticationTryFrom(f, path \o <<PATH_AUTHENTICATIONS, name>>))

pending_reboot(f, path) ==
    Gated(f, path,
          [touched |-> {path \o <<PATH_ATTRIBUTES, "pending_reboot">>},
           res |-> eq_one(read_attribute_property(f, Append(path, PATH_ATTRIBUTES),
                                                  "pending_reboot"))])

(***************************************************************************)
(* Typed accessors of a constructed attribute a.                           *)
(***************************************************************************)
\* what the variant of a makes of the string read from current_value
DecodeValue(a, string) ==
    IF ~IsOk(string) THEN string
    ELSE IF a.tag = "Integer" THEN i32_from_str(string.val)
    ELSE IF a.tag = "OrderedList"
    THEN Ok(split(string.val, POSSIBLE_VALUES_DELIMITER))
    ELSE IF a.tag = "EnumerationList"
    THEN Ok(split(string.val, ENUMERATION_VALUES_DELIMITER))
    ELSE string

\* the tag the type file of a names at present, the tag of a when it names none
TagOnDisk(a, t) ==
    IF ~IsOk(t) THEN a.tag
    ELSE IF t.val = TYPE_ENUMERATION THEN "Enumeration"
    ELSE IF t.val = TYPE_INTEGER THEN "Integer"
    ELSE IF t.val = TYPE_STRING THEN "String"
    ELSE IF t.val = TYPE_ORDERED_LIST THEN "OrderedList"
    ELSE IF t.val = TYPE_ENUMERATION_LIST THEN "EnumerationList"
    ELSE a.tag

\* a closure that decodes as the type file says at the time of the read
ReadCurrentValue_retyped(f, a) ==
    DecodeValue([a EXCEPT !.tag = TagOnDisk(a, attribute_type(f, a.common_attribute.path))],
                read_attribute_property(f, a.common_attribute.path,
                                        PROPERTY_CURRENT_VALUE))

\* the closure current_value hands to current_value_cache_or: read
\* current_value and decode it as the variant does
ReadCurrentValue(f, a) ==
    DecodeValue(a, read_attribute_property(f, a.common_attribute.path,
                                           PROPERTY_CURRENT_VALUE))

\* a cache-miss branch that stores whatever the closure gave, errors too
Fetched_always(a, cache, value) ==
    [res |-> value,
     cache |-> Some(value.val),
     touched |-> {Append(a.common_attribute.path, PROPERTY_CURRENT_VALUE)}]

\* the cache-miss branch: the value the closure gave is stored when it is Ok
Fetched(a, cache, value) ==
    [res |-> value,
     cache |-> IF IsOk(value) THEN Some(value.val) ELSE cache,
     touched |-> {Append(a.common_attribute.path, PROPERTY_CURRENT_VALUE)}]

\* a read that never consults the cache
current_value_cache_or_uncached(f, a, cache) ==
    Fetched(a, cache, ReadCurrentValue(f, a))

\* CommonAttribute::current_value_cache_or: the result, the cache it leaves
\* and the paths looked at
current_value_cache_or(f, a, cache) ==
    IF IsSome(cache)
    THEN [res |-> Ok(cache[1]), cache |-> cache, touched |-> {}]
    ELSE Fetched(a, cache, ReadCurrentValue(f, a))

\* a clear that leaves the cache as it is
clear_current_value_cache_kept(cache) == cache

\* CommonAttribute::clear_current_value_cache
clear_current_value_cache(cache) == None

\* an encoding that joins every list with the possible_values delimiter
EncodeValue_one_delimiter(a, value) ==
    IF a.tag = "Integer" THEN to_string(value)
    ELSE IF a.tag \in {"OrderedList", "EnumerationList"}
    THEN join(value, POSSIBLE_VALUES_DELIMITER)
    ELSE value

\* the string write_current_value stores for value
EncodeValue(a, value) ==
    IF a.tag = "Integer" THEN to_string(value)
    ELSE IF a.tag = "OrderedList" THEN join(value, POSSIBLE_VALUES_DELIMITER)
    ELSE IF a.tag = "EnumerationList" THEN join(value, ENUMERATION_VALUES_DELIMITER)
    ELSE value

\* let res = write_attribute_property(..); clear_current_value_cache(); res
Cleared(cache, written) ==
    [res |-> written.result,
     fs |-> written.fs,
     cache |-> clear_current_value_cache(cache)]

\* a write that clears the cache only when the storage write succeeded
write_current_value_clear_on_success(f, a, cache, value) ==
    LET written == write_attribute_property(f, a.common_attribute.path,
                                            PROPERTY_CURRENT_VALUE, EncodeValue(a, value))
    IN  [res |-> written.result,
         fs |-> written.fs,
         cache |-> IF IsOk(written.result) THEN None ELSE cache]

\* a write that refuses an integer outside min_value..max_value and a
\* string longer than max_length
write_current_value_in_range(f, a, cache, value) ==
    IF \/ a.tag = "Integer" /\ (value < a.min_value \/ value > a.max_value)
       \/ a.tag = "String" /\ Len(value) > a.max_length
    THEN [res |-> Err("OutOfRange", <<>>), fs |-> f, cache |-> None]
    ELSE Cleared(cache,
             write_attribute_property(f, a.common_attribute.path, PROPERTY_CURRENT_VALUE,
                                      EncodeValue(a, value)))

\* WriteableAttribute::write_current_value: the result, the filesystem and
\* the cache it leaves
write_current_value(f, a, cache, value) ==
    Cleared(cache,
        write_attribute_property(f, a.common_attribute.path, PROPERTY_CURRENT_VALUE,
                                 EncodeValue(a, value)))

\* a login that creates the current_password file it does not find
authenticate_with_password_creating(f, au, password) ==
    write_attribute_property_creating(f, au.path, PROPERTY_CURRENT_PASSWORD, password)

\* Authentication::authenticate_with_password
authenticate_with_password(f, au, password) ==
    write_attribute_property(f, au.path, PROPERTY_CURRENT_PASSWORD, password)

(***************************************************************************)
(* Filesystems the program starts on.                                      *)
(***************************************************************************)
Line(word) == <<word, SYSFS_END_LINE>>

TypeWords == {"enumeration", "integer", "string", "ordered-list",
              "enumeration-list", "bogus"}

\* the entries of one attribute directory as the firmware driver exposes them
AttributeEntries(name, type, with_elements) ==
    [p \in AttrProps |->
        CASE p = "type" -> File(Line(type))
          [] p = "current_value" -> File(Line("1"))
          [] p = "default_value" -> File(Line("1"))
          [] p = "display_name" -> File(Line("Name"))
          [] p = "possible_values" -> File(<<"1", ";", "1", ":", "1", SYSFS_END_LINE>>)
          [] p = "elements" -> IF with_elements THEN File(Line("1")) ELSE Absent
          [] OTHER -> Absent]

AuthenticationEntries ==
    [p \in AuthProps |->
        CASE p = "is_enabled" -> File(Line("1"))
          [] p = "role" -> File(Line("bios-admin"))
          [] p = "mechanism" -> File(Line("password"))
          [] p = "current_password" -> File(<<>>)
          [] OTHER -> Absent]

\* a root whose attributes and authentication entries are of the given
\* kinds, with one attribute and one authentication below them
MakeFs(attributes, authentications, name, type, with_elements) ==
    [path \in AllPaths |->
        IF path = <<PATH_ATTRIBUTES>> THEN attributes
        ELSE IF path = <<PATH_AUTHENTICATIONS>> THEN authentications
        ELSE IF path[1] = PATH_ATTRIBUTES
        THEN IF attributes.kind # "dir" THEN Absent
             ELSE IF Len(path) = 2
             THEN IF path[2] = "pending_reboot" THEN File(Line("0"))
                  ELSE IF path[2] = name THEN Dir ELSE Absent
             ELSE IF path[2] = name
             THEN AttributeEntries(name, type, with_elements)[path[3]]
             ELSE Absent
        ELSE IF authentications.kind # "dir" THEN Absent
             ELSE IF Len(path) = 2 THEN Dir
             ELSE AuthenticationEntries[path[3]]]

(***************************************************************************)
(* Inputs.                                                                 *)
(***************************************************************************)
RECURSIVE SeqsUpTo(_, _)
SeqsUpTo(items, n) ==
    IF n = 0 THEN {<<>>}
    ELSE LET shorter == SeqsUpTo(items, n - 1)
         IN  shorter \cup {Append(s, x) : s \in shorter, x \in items}

Range(seq) == {seq[i] : i \in 1..Len(seq)}

\* the values a caller hands to write_current_value of attribute a
WriteValues(a) ==
    IF a.tag = "Integer" THEN (-IntRange..IntRange) \cup {I32_MIN, I32_MAX}
    ELSE IF a.tag = "OrderedList" THEN SeqsUpTo(Range(a.elements), MaxItems)
    ELSE IF a.tag = "EnumerationList" THEN SeqsUpTo(Range(a.possible_values), MaxItems)
    ELSE StrsUpTo({"1", SYSFS_END_LINE}, MaxLen)

\* the contents the firmware driver may store in current_value: a value
\* followed by line terminators, lists in either delimiter, and texts that
\* are no signed 32-bit decimal
ExtContents ==
    StrsUpTo({"1", SYSFS_END_LINE}, ExtLen)
    \cup {<<"1", d, "1">> : d \in {POSSIBLE_VALUES_DELIMITER, ENUMERATION_VALUES_DELIMITER}}
    \cup {<<POSSIBLE_VALUES_DELIMITER>>, <<ENUMERATION_VALUES_DELIMITER>>,
          <<"1", POSSIBLE_VALUES_DELIMITER, "1", SYSFS_END_LINE>>,
          <<"-", "1">>, <<"+", "1">>, <<"-">>,
          <<"2", "1", "4", "7", "4", "8", "3", "6", "4", "8">>}

WritableValues == IF IsSome(attr) THEN WriteValues(attr[1]) ELSE {}

\* the threads of the process; none is inside a call and the mutex is free
Threads == 1..NThreads
NoThreadInCall ==
    /\ lock = 0
    /\ pc = [t \in Threads |-> "idle"]
    /\ fetched = [t \in Threads |-> None]

\* StatusMessage::Ok, Message(String) and Error(String); the text of an error
\* is the error it was made from
StatusOk == [kind |-> "Ok", text |-> <<>>]
StatusMessage(message) == [kind |-> "Message", text |-> message]
StatusError(err) == [kind |-> "Error", text |-> err]

\* Status::default()
StatusDefault == [message |-> StatusOk, reboot_required |-> FALSE]

\* the Application: the variant it is in, the AccessMode and the
\* authentication it holds, and its controls, each an attribute with the
\* cache of its current value
AppState(state, access_mode, held, controls) ==
    [state |-> state, access_mode |-> access_mode,
     authentication |-> held, controls |-> controls]

\* no Application has been made
NoApplication ==
    /\ status = StatusDefault
    /\ app = AppState("none", "none", <<>>, <<>>)

\* what a call finds: the previous call and whether it succeeded, whether
\* the firmware driver changed storage since, whether the cache is populated
NoContext == [op |-> "none", ok |-> TRUE, ext |-> FALSE, cached |-> FALSE]
Before == [op |-> ret.op, ok |-> IsOk(ret.res), ext |-> last = "external",
           cached |-> IsSome(current_value_cache)]

NoCall == [op |-> "none", arg |-> <<>>, res |-> Ok(<<>>)]
Call(op, arg, res) == [op |-> op, arg |-> arg, res |-> res]

\* the attribute directory the filesystem holds
TheAttrDir == CHOOSE d \in {AttrDir(n) : n \in AttrNames} : is_dir(fs, d)
CurrentValuePath == Append(TheAttrDir, PROPERTY_CURRENT_VALUE)

(***************************************************************************)
(* Spec: one session on a valid root: attributes are loaded, read and      *)
(* written while the firmware driver changes current_value underneath.     *)
(***************************************************************************)
SpecConfigs ==
    {[name |-> "Setting", type |-> t, with_elements |-> TRUE] :
        t \in {"enumeration", "integer", "string", "ordered-list"}}
    \cup {[name |-> "BootOrder", type |-> "enumeration", with_elements |-> TRUE]}

Init ==
    /\ \E c \in SpecConfigs : fs = MakeFs(Dir, Dir, c.name, c.type, c.with_elements)
    /\ attr = None
    /\ current_value_cache = None
    /\ auth = None
    /\ ret = NoCall
    /\ last = "init"
    /\ touched = {}
    /\ before = NoContext
    /\ NoThreadInCall
    /\ NoApplication

\* every call records its result; a read also records what preceded it, a
\* write whether it found the cache populated
Called(op, arg, res, paths) ==
    /\ ret' = Call(op, arg, res)
    /\ touched' = paths
    /\ last' = op
    /\ before' = IF op = "current_value" THEN Before
                 ELSE IF op = "write_current_value"
                 THEN [NoContext EXCEPT !.cached = Before.cached]
                 ELSE NoContext
    /\ UNCHANGED <<lock, pc, fetched, status, app>>

\* Attribute::attribute(root, name): on success the caller holds a new
\* attribute object, whose cache starts empty
LoadAttribute(name) ==
    \E r \in {attribute(fs, Root, name)} :
        /\ Called("attribute", name, r.res, r.touched)
        /\ attr' = IF IsOk(r.res) THEN Some(r.res.val) ELSE attr
        /\ current_value_cache' = IF IsOk(r.res) THEN None ELSE current_value_cache
        /\ UNCHANGED <<fs, auth>>

CurrentValue ==
    /\ IsSome(attr)
    /\ \E r \in {current_value_cache_or(fs, attr[1], current_value_cache)} :
           /\ Called("current_value", <<>>, r.res, r.touched)
           /\ current_value_cache' = r.cache
    /\ UNCHANGED <<fs, attr, auth>>

WriteCurrentValue(value) ==
    /\ IsSome(attr)
    /\ \E r \in {write_current_value(fs, attr[1], current_value_cache, value)} :
           /\ Called("write_current_value", value, r.res,
                     {Append(attr[1].common_attribute.path, PROPERTY_CURRENT_VALUE)})
           /\ fs' = r.fs
           /\ current_value_cache' = r.cache
    /\ UNCHANGED <<attr, auth>>

\* the firmware driver stores a new current_value
ExternalWrite(content) ==
    /\ fs' = [fs EXCEPT ![CurrentValuePath] = File(content)]
    /\ fs' # fs
    /\ last' = "external"
    /\ UNCHANGED <<attr, current_value_cache, auth, ret, touched, before, lock, pc, fetched,
                   status, app>>

\* the firmware driver withdraws current_value
ExternalRemove ==
    /\ fs[CurrentValuePath].kind = "file"
    /\ fs' = [fs EXCEPT ![CurrentValuePath] = Absent]
    /\ last' = "external"
    /\ UNCHANGED <<attr, current_value_cache, auth, ret, touched, before, lock, pc, fetched,
                   status, app>>

Next ==
    \/ \E name \in AttrNames \cup {"pending_reboot"} : LoadAttribute(name)
    \/ CurrentValue
    \/ \E value \in WritableValues : WriteCurrentValue(value)
    \/ \E content \in ExtContents : ExternalWrite(content)
    \/ ExternalRemove

Spec == Init /\ [][Next]_vars

(***************************************************************************)
(* FacadeSpec: the facade operations on roots of every shape: attributes   *)
(* and authentication each absent, a regular file or a directory, and the  *)
(* attribute of either name and any type string.                           *)
(***************************************************************************)
NodeKinds == {Absent, File(<<>>), Dir}

FacadeInit ==
    /\ \E attributes \in NodeKinds, authentications \in NodeKinds,
          name \in AttrNames, type \in TypeWords, with_elements \in BOOLEAN :
          fs = [MakeFs(attributes, authentications, name, type, with_elements)
                   EXCEPT ![Append(AttrDir(name), PROPERTY_CURRENT_VALUE)] =
                       IF attributes.kind = "dir" /\ type # "integer"
                       THEN File(<<"1", ":", "1", ";", "1", SYSFS_END_LINE>>)
                       ELSE @]
    /\ attr = None
    /\ current_value_cache = None
    /\ auth = None
    /\ ret = NoCall
    /\ last = "init"
    /\ touched = {}
    /\ before = NoContext
    /\ NoThreadInCall
    /\ NoApplication

IsFirmwareAttributesRoot ==
    /\ Called("is_firmware_attributes_root", Root,
              Ok(is_firmware_attributes_root(fs, Root)),
              is_firmware_attributes_root_touched(fs, Root))
    /\ UNCHANGED <<fs, attr, current_value_cache, auth>>

AttributesNames ==
    \E r \in {attributes_names(fs, Root)} :
        /\ Called("attributes_names", <<>>, r.res, r.touched)
        /\ UNCHANGED <<fs, attr, current_value_cache, auth>>

AuthenticationsNames ==
    \E r \in {authentications_names(fs, Root)} :
        /\ Called("authentications_names", <<>>, r.res, r.touched)
        /\ UNCHANGED <<fs, attr, current_value_cache, auth>>

\* Attribute::authentication(root, name): on success the caller holds the
\* authentication object
LoadAuthentication(name) ==
    \E r \in {authentication(fs, Root, name)} :
        /\ Called("authentication", name, r.res, r.touched)
        /\ auth' = IF IsOk(r.res) THEN Some(r.res.val) ELSE auth
        /\ UNCHANGED <<fs, attr, current_value_cache>>

PendingReboot ==
    \E r \in {pending_reboot(fs, Root)} :
        /\ Called("pending_reboot", <<>>, r.res, r.touched)
        /\ UNCHANGED <<fs, attr, current_value_cache, auth>>

FacadeNext ==
    \/ IsFirmwareAttributesRoot
    \/ AttributesNames
    \/ AuthenticationsNames
    \/ \E name \in AttrNames \cup {"pending_reboot"} : LoadAttribute(name)
    \/ \E name \in AuthNames : LoadAuthentication(name)
    \/ PendingReboot
    \/ CurrentValue

FacadeSpec == FacadeInit /\ [][FacadeNext]_vars

(***************************************************************************)
(* CodecSpec: the property codec applied to the current_value of an        *)
(* attribute and the current_password of an authentication, each absent or *)
(* holding any content.                                                    *)
(***************************************************************************)
CodecContents == StrsUpTo({"1", SYSFS_END_LINE}, ExtLen + 1)
CodecNodes == {Absent} \cup {File(c) : c \in CodecContents}
CodecTargets == {<<AttrDir("Setting"), PROPERTY_CURRENT_VALUE>>,
                 <<AuthDir("Admin"), PROPERTY_CURRENT_PASSWORD>>}

CodecInit ==
    /\ \E value \in CodecNodes, password \in {Absent, File(<<>>)} :
          fs = [MakeFs(Dir, Dir, "Setting", "string", FALSE)
                   EXCEPT ![Append(AttrDir("Setting"), PROPERTY_CURRENT_VALUE)] = value,
                          ![Append(AuthDir("Admin"), PROPERTY_CURRENT_PASSWORD)] = password]
    /\ attr = None
    /\ current_value_cache = None
    /\ auth = None
    /\ ret = NoCall
    /\ last = "init"
    /\ touched = {}
    /\ before = NoContext
    /\ NoThreadInCall
    /\ NoApplication

ReadAttributeProperty(target) ==
    /\ Called("read_attribute_property", target,
              read_attribute_property(fs, target[1], target[2]),
              {Append(target[1], target[2])})
    /\ UNCHANGED <<fs, attr, current_value_cache, auth>>

TryReadAttributeProperty(target) ==
    /\ Called("try_read_attribute_property", target,
              try_read_attribute_property(fs, target[1], target[2]),
              {Append(target[1], target[2])})
    /\ UNCHANGED <<fs, attr, current_value_cache, auth>>

WriteAttributeProperty(target, value) ==
    \E r \in {write_attribute_property(fs, target[1], target[2], value)} :
        /\ Called("write_attribute_property", <<target, value>>, r.result,
                  {Append(target[1], target[2])})
        /\ fs' = r.fs
        /\ UNCHANGED <<attr, current_value_cache, auth>>

\* Authentication::authenticate_with_password on the object the caller holds
AuthenticateWithPassword(password) ==
    /\ IsSome(auth)
    /\ \E r \in {authenticate_with_password(fs, auth[1], password)} :
           /\ Called("authenticate_with_password", password, r.result,
                     {Append(auth[1].path, PROPERTY_CURRENT_PASSWORD)})
           /\ fs' = r.fs
    /\ UNCHANGED <<attr, current_value_cache, auth>>

CodecNext ==
    \/ \E target \in CodecTargets : ReadAttributeProperty(target)
    \/ \E target \in CodecTargets : TryReadAttributeProperty(target)
    \/ \E target \in CodecTargets, value \in CodecContents :
           WriteAttributeProperty(target, value)
    \/ \E name \in AttrNames : LoadAttribute(name)
    \/ \E name \in AuthNames : LoadAuthentication(name)
    \/ \E value \in WritableValues : WriteCurrentValue(value)
    \/ \E password \in StrsUpTo({"1"}, 1) : AuthenticateWithPassword(password)

CodecSpec == CodecInit /\ [][CodecNext]_vars

(***************************************************************************)
(* Claims checked under Spec.                                              *)
(***************************************************************************)
AttrCurrentValuePath == Append(attr[1].common_attribute.path, PROPERTY_CURRENT_VALUE)

\* C1: the first current_value() after a successful write_current_value
\* reads current_value from storage and returns the decoding of what storage
\* holds at that moment, also when storage was changed externally in between
C1_ReadAfterWriteReadsStorage ==
    (last = "current_value" /\ before.op = "write_current_value" /\ before.ok)
        => /\ touched = {AttrCurrentValuePath}
           /\ ret.res = ReadCurrentValue(fs, attr[1])

\* a read that followed a successful write and an external change, and
\* returned what the firmware driver stored, not what was written
C1_Witness ==
    /\ last = "current_value"
    /\ before.op = "write_current_value" /\ before.ok /\ before.ext
    /\ IsOk(ret.res)
    /\ fs[AttrCurrentValuePath].content = <<"1", ";", "1", SYSFS_END_LINE>>

\* C2 as stated: write_current_value clears the cache if and only if the
\* storage write succeeded; a failed write leaves the cache as it was
C2_ClearsOnlyOnSuccess ==
    [][last' = "write_current_value"
          => IF IsOk(ret'.res) THEN current_value_cache' = None
             ELSE current_value_cache' = current_value_cache]_vars

\* C2 as amended: write_current_value leaves the cache empty whether the
\* storage write succeeded or failed
C2_WriteAlwaysClears ==
    last = "write_current_value" => current_value_cache = None

\* a write that found the cache populated and failed with MissingFile
C2_Witness ==
    /\ last = "write_current_value"
    /\ before.cached
    /\ ret.res = Err("MissingFile", AttrCurrentValuePath)

InConstraints(a, value) ==
    CASE a.tag = "Integer" -> a.min_value <= value /\ value <= a.max_value
      [] a.tag = "String" -> a.min_length <= Len(value) /\ Len(value) <= a.max_length
      [] a.tag = "Enumeration" -> value \in Range(a.possible_values)
      [] a.tag = "OrderedList" -> Range(value) \subseteq Range(a.elements)
      [] a.tag = "EnumerationList" -> Range(value) \subseteq Range(a.possible_values)

\* a read that directly follows a successful write of the same object
ReadFollowsWrite ==
    /\ last = "write_current_value" /\ IsOk(ret.res)
    /\ last' = "current_value"

\* C4 as stated: a successful write of any value within the declared
\* constraints, followed by a read, returns exactly that value
C4_RoundTripWithinConstraints ==
    [][(ReadFollowsWrite /\ InConstraints(attr[1], ret.arg))
          => ret'.res = Ok(ret.arg)]_vars

EndsWithEndLine(s) == Len(s) > 0 /\ s[Len(s)] = SYSFS_END_LINE

\* the values the encoding of attribute a represents
Representable(a, value) ==
    CASE a.tag = "Integer" -> TRUE
      [] a.tag \in {"String", "Enumeration"} -> ~EndsWithEndLine(value)
      [] a.tag \in {"OrderedList", "EnumerationList"} ->
            /\ Len(value) > 0
            /\ ~EndsWithEndLine(value[Len(value)])
            /\ \A i \in 1..Len(value) :
                   IF a.tag = "OrderedList" THEN ";" \notin Range(value[i])
                   ELSE ":" \notin Range(value[i])

\* C4 as amended: a successful write followed by a read returns the value
\* written for every integer, for every string that does not end in a line
\* terminator, and for every non-empty list whose items do not contain the
\* delimiter of the variant and whose last item does not end in a line
\* terminator
C4_RoundTripRepresentable ==
    [][(ReadFollowsWrite /\ Representable(attr[1], ret.arg))
          => ret'.res = Ok(ret.arg)]_vars

\* a two-item list written to an EnumerationList and read back
C4_Witness ==
    /\ last = "current_value"
    /\ before.op = "write_current_value" /\ before.ok /\ ~before.ext
    /\ attr[1].tag = "EnumerationList"
    /\ ret.res = Ok(<<<<"1">>, <<"1">>>>)

\* the content the claim gives for a value of each variant
StatedEncoding(tag, value) ==
    CASE tag \in {"Enumeration", "String"} -> value
      [] tag = "Integer" -> to_string(value)
      [] tag = "OrderedList" -> join(value, ";")
      [] tag = "EnumerationList" -> join(value, ":")

\* C10: a successful write_current_value(v) leaves current_value holding
\* exactly the encoding of v, with no terminator, whether or not the cache
\* was populated, and changes no other file
C10_WriteStoresEncoding ==
    [][(last' = "write_current_value" /\ IsOk(ret'.res))
          => fs' = [fs EXCEPT ![AttrCurrentValuePath] =
                        File(StatedEncoding(attr[1].tag, ret'.arg))]]_vars

\* a two-item list written to an EnumerationList whose cache was populated
C10_Witness ==
    /\ last = "write_current_value" /\ IsOk(ret.res)
    /\ before.cached
    /\ attr[1].tag = "EnumerationList"
    /\ Len(ret.arg) = 2
    /\ fs[AttrCurrentValuePath].content = <<"1", ":", "1">>

(***************************************************************************)
(* Claims checked under FacadeSpec.                                        *)
(***************************************************************************)
\* the variant the claim gives for a type string
StatedTag(type) ==
    CASE type = <<"enumeration">> -> "Enumeration"
      [] type = <<"integer">> -> "Integer"
      [] type = <<"string">> -> "String"
      [] type = <<"ordered-list">> -> "OrderedList"
      [] type = <<"enumeration-list">> -> "EnumerationList"
      [] OTHER -> "unsupported"

\* the word the type file of the loaded attribute holds
RawType(a) == <<fs[Append(a.common_attribute.path, "type")].content[1]>>
Quirk(a) == RawType(a) = <<"enumeration">> /\ a.common_attribute.name = "BootOrder"

\* C5: an attribute named BootOrder whose type file says enumeration is an
\* EnumerationList, takes its candidates from possible_values split on ';'
\* and decodes current_value by splitting on ':'; every other combination of
\* name and type is dispatched on the type string as it stands
C5_QuirkReclassification ==
    /\ IsSome(attr) =>
          LET a == attr[1]
              dir == a.common_attribute.path
          IN  /\ Quirk(a) =>
                    /\ a.tag = "EnumerationList"
                    /\ a.possible_values =
                           split(read_attribute_property(fs, dir, "possible_values").val, ";")
                    /\ (last = "current_value" /\ IsOk(ret.res)) =>
                           ret.res.val =
                               split(read_attribute_property(fs, dir, "current_value").val, ":")
              /\ ~Quirk(a) => a.tag = StatedTag(RawType(a))
    /\ (last = "attribute" /\ ret.res.tag = "UnsupportedAttributeType") =>
          /\ ret.res.val = <<fs[<<PATH_ATTRIBUTES, ret.arg, "type">>].content[1]>>
          /\ StatedTag(ret.res.val) = "unsupported"

\* the BootOrder attribute of type enumeration, with an elements file beside
\* possible_values, read as the list 1 and 1;1
C5_Witness ==
    /\ IsSome(attr) /\ Quirk(attr[1])
    /\ fs[Append(AttrDir("BootOrder"), "elements")].kind = "file"
    /\ last = "current_value"
    /\ ret.res = Ok(<<<<"1">>, <<"1", ";", "1">>>>)

FacadeOps == {"attributes_names", "authentications_names", "attribute",
              "authentication", "pending_reboot"}

\* C6: a facade operation on a path that fails root validation returns
\* InvalidRoot(path) and looks at nothing below attributes and
\* authentication; on a path that passes it never returns InvalidRoot
C6_FacadeGatedByRootValidation ==
    last \in FacadeOps =>
        IF is_firmware_attributes_root(fs, Root)
        THEN ret.res.tag # "InvalidRoot"
        ELSE /\ ret.res = Err("InvalidRoot", Root)
             /\ touched \subseteq {<<PATH_ATTRIBUTES>>, <<PATH_AUTHENTICATIONS>>}

\* an attribute asked of a root that has the attribute but no authentication
C6_Witness ==
    /\ last = "attribute"
    /\ ret.res = Err("InvalidRoot", Root)
    /\ \E name \in AttrNames : ret.arg = name /\ is_dir(fs, AttrDir(name))
    /\ ~exists(fs, <<PATH_AUTHENTICATIONS>>)

\* C7: is_firmware_attributes_root is true exactly when attributes and
\* authentication are both subdirectories of the path
C7_RootIffBothSubdirectories ==
    last = "is_firmware_attributes_root" =>
        (ret.res.val <=> (is_dir(fs, <<PATH_ATTRIBUTES>>)
                          /\ is_dir(fs, <<PATH_AUTHENTICATIONS>>)))

(***************************************************************************)
(* Claims checked under CodecSpec.                                         *)
(***************************************************************************)
\* the file a write call is aimed at
WriteTarget(call) ==
    CASE call.op = "write_attribute_property" -> Append(call.arg[1][1], call.arg[1][2])
      [] call.op = "write_current_value" -> AttrCurrentValuePath
      [] call.op = "authenticate_with_password" ->
             Append(auth[1].path, PROPERTY_CURRENT_PASSWORD)

\* C8: write_attribute_property, write_current_value and
\* authenticate_with_password on a property file that does not exist return
\* MissingFile(path) and leave every file as it was
C8_WritesNeverCreate ==
    [][(/\ last' \in {"write_attribute_property", "write_current_value",
                      "authenticate_with_password"}
        /\ ~exists(fs, WriteTarget(ret')))
          => /\ ret'.res = Err("MissingFile", WriteTarget(ret'))
             /\ fs' = fs]_vars

\* a password submitted to an authentication that has no current_password
C8_Witness ==
    /\ last = "authenticate_with_password"
    /\ ret.res = Err("MissingFile", Append(AuthDir("Admin"), PROPERTY_CURRENT_PASSWORD))
    /\ ret.arg = <<"1">>
    /\ ~exists(fs, Append(AuthDir("Admin"), PROPERTY_CURRENT_PASSWORD))

\* the file the last codec read was aimed at
ReadTarget == Append(ret.arg[1], ret.arg[2])
ReadOps == {"read_attribute_property", "try_read_attribute_property"}
Returned(res) == IF last = "read_attribute_property" THEN res.val ELSE res.val[1]

\* content without one trailing line terminator
StripOne(c) == IF EndsWithEndLine(c) THEN SubSeq(c, 1, Len(c) - 1) ELSE c

\* what the two reads return for an absent file
AbsentRead ==
    IF last = "read_attribute_property"
    THEN ret.res = Err("MissingFile", ReadTarget)
    ELSE ret.res = Ok(None)

\* C9 as stated: a read returns the content with exactly one trailing line
\* terminator removed, further ones retained; read_attribute_property
\* returns MissingFile for an absent file, try_read_attribute_property None
C9_StripsOneEndLine ==
    last \in ReadOps =>
        IF exists(fs, ReadTarget)
        THEN IsOk(ret.res) /\ Returned(ret.res) = StripOne(fs[ReadTarget].content)
        ELSE AbsentRead

\* C9 as amended: a read returns the content with every trailing line
\* terminator removed: what it returns does not end in one, and the content
\* is what it returns followed by line terminators only
C9_StripsEveryEndLine ==
    last \in ReadOps =>
        IF exists(fs, ReadTarget)
        THEN LET c == fs[ReadTarget].content
                 r == Returned(ret.res)
             IN  /\ IsOk(ret.res)
                 /\ ~EndsWithEndLine(r)
                 /\ Len(r) <= Len(c)
                 /\ SubSeq(c, 1, Len(r)) = r
                 /\ \A i \in (Len(r) + 1)..Len(c) : c[i] = SYSFS_END_LINE
        ELSE AbsentRead

\* a value followed by two line terminators, read as the value alone
C9_Witness ==
    /\ last = "try_read_attribute_property"
    /\ fs[ReadTarget].content = <<"1", SYSFS_END_LINE, SYSFS_END_LINE>>
    /\ ret.res = Ok(Some(<<"1">>))

(***************************************************************************)
(* AuthSpec: the authentication entry Admin with each of its properties    *)
(* absent, well-formed or malformed, beside a string attribute whose value *)
(* is read and cached while passwords are submitted.                       *)
(***************************************************************************)
\* a property file absent or holding one of the words
WordNodes(words) == {Absent} \cup {File(Line(w)) : w \in words}

AuthInit ==
    /\ \E is_enabled \in WordNodes({"1", "0"}),
          role \in WordNodes({"bios-admin", "bogus"}),
          mechanism \in WordNodes({"password", "bogus"}),
          min_password_length \in WordNodes({"8", "x"}),
          max_password_length \in WordNodes({"8", "x"}),
          current_password \in {Absent, File(<<>>)} :
          fs = [MakeFs(Dir, Dir, "Setting", "string", FALSE)
                   EXCEPT ![Append(AuthDir("Admin"), "is_enabled")] = is_enabled,
                          ![Append(AuthDir("Admin"), "role")] = role,
                          ![Append(AuthDir("Admin"), "mechanism")] = mechanism,
                          ![Append(AuthDir("Admin"), "min_password_length")] =
                              min_password_length,
                          ![Append(AuthDir("Admin"), "max_password_length")] =
                              max_password_length,
                          ![Append(AuthDir("Admin"), PROPERTY_CURRENT_PASSWORD)] =
                              current_password]
    /\ attr = None
    /\ current_value_cache = None
    /\ auth = None
    /\ ret = NoCall
    /\ last = "init"
    /\ touched = {}
    /\ before = NoContext
    /\ NoThreadInCall
    /\ NoApplication

\* the passwords a caller submits: the empty one logs out
Passwords == StrsUpTo({"1"}, 1)

AuthNext ==
    \/ \E name \in AuthNames : LoadAuthentication(name)
    \/ \E password \in Passwords : AuthenticateWithPassword(password)
    \/ LoadAttribute("Setting")
    \/ CurrentValue

AuthSpec == AuthInit /\ [][AuthNext]_vars

(***************************************************************************)
(* Claims checked under AuthSpec.                                          *)
(***************************************************************************)
\* the authentication directory the last load was aimed at, the node of one
\* of its properties and the word that property holds
LoadedAuthDir == AuthDir(ret.arg)
AuthNode(p) == fs[Append(LoadedAuthDir, p)]
AuthWord(p) == <<AuthNode(p).content[1]>>
IsNumber(p) == \A i \in 1..Len(AuthWord(p)) : IsDigit(AuthWord(p)[i])

\* C11 as stated: an absent is_enabled, role or mechanism gives MissingFile,
\* a role or mechanism outside the enum VariantNotFount, a non-numeric
\* password length ParseIntError, each whatever the other properties hold;
\* a load that succeeds defaults absent lengths to 0 and 128
C11_EachFailureOnItsOwn ==
    last = "authentication" =>
        /\ (\E p \in {"is_enabled", "role", "mechanism"} : AuthNode(p) = Absent)
              => ret.res.tag = "MissingFile"
        /\ (\/ AuthNode("role") # Absent /\ AuthWord("role") \notin Roles
            \/ AuthNode("mechanism") # Absent /\ AuthWord("mechanism") \notin Mechanisms)
              => ret.res.tag = "VariantNotFount"
        /\ (\E p \in {"min_password_length", "max_password_length"} :
                AuthNode(p) # Absent /\ ~IsNumber(p))
              => ret.res.tag = "ParseIntError"
        /\ IsOk(ret.res) =>
              /\ AuthNode("min_password_length") = Absent
                    => ret.res.val.min_password_length = 0
              /\ AuthNode("max_password_length") = Absent
                    => ret.res.val.max_password_length = 128

\* the error of the first property, in the order is_enabled, role,
\* mechanism, min_password_length, max_password_length, that is absent
\* though required or malformed; <<>> when there is none
RECURSIVE FirstAuthFailure(_)
FirstAuthFailure(props) ==
    IF Len(props) = 0 THEN <<>>
    ELSE LET p == props[1]
             required == p \in {"is_enabled", "role", "mechanism"}
         IN  IF AuthNode(p) = Absent
             THEN IF required THEN <<Err("MissingFile", Append(LoadedAuthDir, p))>>
                  ELSE FirstAuthFailure(Tail(props))
             ELSE IF p = "role" /\ AuthWord(p) \notin Roles
             THEN <<Err("VariantNotFount", <<>>)>>
             ELSE IF p = "mechanism" /\ AuthWord(p) \notin Mechanisms
             THEN <<Err("VariantNotFount", <<>>)>>
             ELSE IF ~required /\ ~IsNumber(p)
             THEN <<Err("ParseIntError", "InvalidDigit")>>
             ELSE FirstAuthFailure(Tail(props))

\* the password length a property gives, or the default when it is absent
LengthOr(p, default) ==
    IF AuthNode(p) = Absent THEN default ELSE DigitOf(AuthWord(p)[1])

\* C11 as amended: the load returns the error of the first property in
\* reading order that fails, and then no object; when none fails it returns
\* the object holding what the properties say, absent lengths defaulted to
\* 0 and 128 independently
C11_FirstFailureDecides ==
    last = "authentication" =>
        LET failure == FirstAuthFailure(<<"is_enabled", "role", "mechanism",
                                          "min_password_length", "max_password_length">>)
        IN  IF failure # <<>> THEN ret.res = failure[1]
            ELSE ret.res = Ok([path |-> LoadedAuthDir,
                               login |-> ret.arg,
                               is_enabled |-> AuthWord("is_enabled") = <<"1">>,
                               role |-> AuthWord("role"),
                               mechanism |-> AuthWord("mechanism"),
                               min_password_length |-> LengthOr("min_password_length", 0),
                               max_password_length |-> LengthOr("max_password_length", 128)])

\* an entry with a role outside the enum and no mechanism: the load fails on
\* the role, not on the missing file
C11_Witness ==
    /\ last = "authentication"
    /\ AuthNode("role") = File(Line("bogus"))
    /\ AuthNode("mechanism") = Absent
    /\ ret.res = Err("VariantNotFount", <<>>)

\* the call that has just returned is an authenticate_with_password
Authenticated == last' = "authenticate_with_password"
CurrentPasswordPath == Append(auth[1].path, PROPERTY_CURRENT_PASSWORD)

\* C15: authenticate_with_password(p) leaves current_password holding
\* exactly p, for an empty p as for any other, and returns Ok; when
\* current_password is absent it returns MissingFile and the filesystem is
\* as before; the authentication object, the attribute object and the value
\* cache are what they were
C15_WritesPasswordOnly ==
    [][Authenticated =>
          /\ IF fs[CurrentPasswordPath].kind = "absent"
             THEN /\ ret'.res = Err("MissingFile", CurrentPasswordPath)
                  /\ fs' = fs
             ELSE /\ ret'.res = Ok(<<>>)
                  /\ fs' = [fs EXCEPT ![CurrentPasswordPath] = File(ret'.arg)]
          /\ auth' = auth
          /\ attr' = attr
          /\ current_value_cache' = current_value_cache]_vars

\* a login with the password 1 next to an attribute whose value is cached
C15_Witness ==
    /\ last = "authenticate_with_password"
    /\ ret.arg = <<"1">> /\ IsOk(ret.res)
    /\ fs[CurrentPasswordPath] = File(<<"1">>)
    /\ IsSome(attr) /\ current_value_cache = Some(<<"1">>)

(***************************************************************************)
(* LoadSpec: an attribute entry whose type file is absent or holds any     *)
(* word and whose numeric properties are each absent, a number or not a    *)
(* number; the entry is loaded, read and written, its current_value being  *)
(* a file the system accepts writes to or refuses them.                    *)
(***************************************************************************)
NumberNodes == WordNodes({"1", "x"})

LoadInit ==
    /\ \E name \in AttrNames, type \in WordNodes(TypeWords),
          lower \in NumberNodes, upper \in NumberNodes, step \in NumberNodes,
          current_value \in {File(Line("1")), ReadOnly(Line("1"))} :
          fs = [MakeFs(Dir, Dir, name, "integer", TRUE)
                   EXCEPT ![Append(AttrDir(name), "type")] = type,
                          ![Append(AttrDir(name), "min_value")] = lower,
                          ![Append(AttrDir(name), "min_length")] = lower,
                          ![Append(AttrDir(name), "max_value")] = upper,
                          ![Append(AttrDir(name), "max_length")] = upper,
                          ![Append(AttrDir(name), "scalar_increment")] = step,
                          ![Append(AttrDir(name), PROPERTY_CURRENT_VALUE)] = current_value]
    /\ attr = None
    /\ current_value_cache = None
    /\ auth = None
    /\ ret = NoCall
    /\ last = "init"
    /\ touched = {}
    /\ before = NoContext
    /\ NoThreadInCall
    /\ NoApplication

LoadNext ==
    \/ \E name \in AttrNames \cup {"pending_reboot"} : LoadAttribute(name)
    \/ CurrentValue
    \/ \E value \in WritableValues : WriteCurrentValue(value)

LoadSpec == LoadInit /\ [][LoadNext]_vars

(***************************************************************************)
(* Claims checked under LoadSpec.                                          *)
(***************************************************************************)
\* the entry the last load was aimed at, the node of one of its properties
\* and the word that property holds
LoadedAttrDir == AttrDir(ret.arg)
AttrNode(p) == fs[Append(LoadedAttrDir, p)]
AttrWord(p) == <<AttrNode(p).content[1]>>

\* the type string the dispatch sees: enumeration-list for the listed names
\* whose type file says enumeration
OverriddenType ==
    IF AttrWord("type") = <<"enumeration">> /\ ret.arg \in ENUMERATION_LIST_ATTRIBUTES
    THEN <<"enumeration-list">>
    ELSE AttrWord("type")

\* the failures that come before the dispatch, <<>> when there is none
LoadFailure ==
    IF ~(LoadedAttrDir \in DOMAIN fs /\ fs[LoadedAttrDir].kind = "dir")
    THEN <<Err("MissingDirectory", LoadedAttrDir)>>
    ELSE IF AttrNode("type") = Absent
    THEN <<Err("MissingFile", Append(LoadedAttrDir, "type"))>>
    ELSE IF StatedTag(OverriddenType) = "unsupported"
    THEN <<Err("UnsupportedAttributeType", OverriddenType)>>
    ELSE <<>>

\* C12 as stated: a load fails with MissingDirectory when the entry is no
\* directory, with MissingFile when it has no type file, with
\* UnsupportedAttributeType(s) when the type string s is none of the five,
\* and otherwise returns the variant of that type string
C12_OtherwiseTheVariant ==
    last = "attribute" =>
        IF LoadFailure # <<>> THEN ret.res = LoadFailure[1]
        ELSE IsOk(ret.res) /\ ret.res.val.tag = StatedTag(OverriddenType)

\* the numeric properties the constructor of a variant parses
NumericProperties(tag) ==
    CASE tag = "Integer" -> {"min_value", "max_value", "scalar_increment"}
      [] tag = "String" -> {"min_length", "max_length"}
      [] OTHER -> {}

\* C12 as amended: the three failures are as stated, and otherwise the load
\* returns what the constructor of the variant of that type string returns:
\* the variant, or ParseIntError when one of its numeric properties is
\* present and not a number
C12_OtherwiseTheConstructor ==
    last = "attribute" =>
        IF LoadFailure # <<>> THEN ret.res = LoadFailure[1]
        ELSE IF \E p \in NumericProperties(StatedTag(OverriddenType)) :
                    AttrNode(p) # Absent /\ ~IsDigit(AttrWord(p)[1])
        THEN ret.res.tag = "ParseIntError"
        ELSE IsOk(ret.res) /\ ret.res.val.tag = StatedTag(OverriddenType)

\* an entry of type integer whose min_value is not a number: the type string
\* is one of the five and no variant is returned
C12_Witness ==
    /\ last = "attribute"
    /\ ret.arg \in AttrNames
    /\ AttrNode("type") = File(Line("integer"))
    /\ AttrNode("min_value") = File(Line("x"))
    /\ ret.res.tag = "ParseIntError"

\* the call that has just returned is a write_current_value
Written == last' = "write_current_value"
\* the system refuses writes to the current_value file of the attribute
Refused == "readonly" \in DOMAIN fs[AttrCurrentValuePath]

\* C13 as stated: write_current_value succeeds for every value whenever the
\* current_value file exists, whatever the declared range, and a read that
\* follows the write of an integer returns that integer
C13_SucceedsWhenFileExists ==
    [][/\ (Written /\ fs[AttrCurrentValuePath].kind = "file") => IsOk(ret'.res)
       /\ (ReadFollowsWrite /\ attr[1].tag = "Integer") => ret'.res = Ok(ret.arg)]_vars

\* C13 as amended: the result of write_current_value depends on the
\* current_value file alone, never on the value or the declared range:
\* MissingFile when it is absent, IOError when the system refuses the write,
\* Ok otherwise; a read that follows the successful write of an integer
\* returns that integer
C13_FileAloneDecides ==
    [][/\ Written =>
             ret'.res = IF fs[AttrCurrentValuePath].kind = "absent"
                        THEN Err("MissingFile", AttrCurrentValuePath)
                        ELSE IF Refused THEN Err("IOError", AttrCurrentValuePath)
                        ELSE Ok(<<>>)
       /\ (ReadFollowsWrite /\ attr[1].tag = "Integer") => ret'.res = Ok(ret.arg)]_vars

\* an integer attribute declared with min_value 1 and max_value 1 whose
\* write of 2147483647 succeeded and was read back
C13_Witness ==
    /\ last = "current_value"
    /\ before.op = "write_current_value" /\ before.ok
    /\ attr[1].tag = "Integer"
    /\ attr[1].min_value = 1 /\ attr[1].max_value = 1
    /\ ret.res = Ok(I32_MAX)

\* the number a numeric property gives, or the default when it is absent
NumberOr(p, default) ==
    IF AttrNode(p) = Absent THEN default ELSE DigitOf(AttrWord(p)[1])

\* C18: a loaded Integer has min_value, max_value and scalar_increment 0,
\* 2147483647 and 1 and a loaded String has min_length and max_length 0 and
\* 128, each where its file is absent and whatever the other files hold; a
\* file that is present and not a number fails the load with ParseIntError
C18_Defaulting ==
    (last = "attribute" /\ LoadFailure = <<>>) =>
        LET tag == StatedTag(OverriddenType)
        IN  IF \E p \in NumericProperties(tag) :
                   AttrNode(p) # Absent /\ ~IsDigit(AttrWord(p)[1])
            THEN ret.res.tag = "ParseIntError"
            ELSE /\ IsOk(ret.res)
                 /\ tag = "Integer" =>
                       /\ ret.res.val.min_value = NumberOr("min_value", 0)
                       /\ ret.res.val.max_value = NumberOr("max_value", 2147483647)
                       /\ ret.res.val.scalar_increment = NumberOr("scalar_increment", 1)
                 /\ tag = "String" =>
                       /\ ret.res.val.min_length = NumberOr("min_length", 0)
                       /\ ret.res.val.max_length = NumberOr("max_length", 128)

\* an Integer loaded with min_value present and max_value and
\* scalar_increment absent
C18_Witness ==
    /\ last = "attribute" /\ IsOk(ret.res)
    /\ ret.res.val.tag = "Integer"
    /\ AttrNode("min_value") = File(Line("1"))
    /\ AttrNode("max_value") = Absent
    /\ AttrNode("scalar_increment") = Absent
    /\ ret.res.val.min_value = 1
    /\ ret.res.val.max_value = 2147483647
    /\ ret.res.val.scalar_increment = 1

(***************************************************************************)
(* TypeSpec: an attribute is loaded, read and written while the firmware   *)
(* driver replaces or removes its type file.                               *)
(***************************************************************************)
TypeInit ==
    /\ \E name \in AttrNames, type \in TypeWords \ {"bogus"} :
          fs = [MakeFs(Dir, Dir, name, type, TRUE)
                   EXCEPT ![Append(AttrDir(name), PROPERTY_CURRENT_VALUE)] =
                       IF type = "integer" THEN @
                       ELSE File(<<"1", ":", "1", ";", "1", SYSFS_END_LINE>>)]
    /\ attr = None
    /\ current_value_cache = None
    /\ auth = None
    /\ ret = NoCall
    /\ last = "init"
    /\ touched = {}
    /\ before = NoContext
    /\ NoThreadInCall
    /\ NoApplication

\* the firmware driver replaces or removes the type file
ExternalType(node) ==
    /\ fs' = [fs EXCEPT ![Append(TheAttrDir, "type")] = node]
    /\ fs' # fs
    /\ last' = "external"
    /\ UNCHANGED <<attr, current_value_cache, auth, ret, touched, before, lock, pc, fetched,
                   status, app>>

TypeNext ==
    \/ \E name \in AttrNames : LoadAttribute(name)
    \/ CurrentValue
    \/ \E value \in WritableValues : WriteCurrentValue(value)
    \/ \E node \in WordNodes(TypeWords) : ExternalType(node)

TypeSpec == TypeInit /\ [][TypeNext]_vars

(***************************************************************************)
(* Claims checked under TypeSpec.                                          *)
(***************************************************************************)
\* the value the claim has a variant decode from the trimmed string s
StatedDecoding(tag, s) ==
    CASE tag = "OrderedList" -> Ok(split(s, ";"))
      [] tag = "EnumerationList" -> Ok(split(s, ":"))
      [] tag = "Integer" -> i32_from_str(s)
      [] OTHER -> Ok(s)

\* C14: the attribute object a caller holds changes only when a load
\* replaces it: no current_value, no write_current_value and no change of
\* the type file alters its variant or its metadata, and a read that reaches
\* storage decodes with the delimiter of the variant fixed at load time,
\* whatever the type file says by then
C14_VariantFixedAtLoad ==
    [][/\ ~(last' = "attribute" /\ IsOk(ret'.res)) => attr' = attr
       /\ (last' = "current_value" /\ ~IsSome(current_value_cache)) =>
             ret'.res = StatedDecoding(attr[1].tag,
                            trim_end_matches(fs[AttrCurrentValuePath].content))]_vars

\* an attribute loaded as an OrderedList whose type file says
\* enumeration-list by the time it is read: the read splits on ';'
C14_Witness ==
    /\ last = "current_value"
    /\ IsSome(attr) /\ attr[1].tag = "OrderedList"
    /\ before.ext /\ ~before.cached
    /\ fs[Append(TheAttrDir, "type")] = File(Line("enumeration-list"))
    /\ ret.res = Ok(<<<<"1", ":", "1">>, <<"1">>>>)

(***************************************************************************)
(* ThreadSpec: threads of one process call current_value and               *)
(* write_current_value on clones of one attribute.  The clones share the   *)
(* cache and its mutex; storage changes through these calls only.  A step  *)
(* is what a thread does between two points where another thread can act:  *)
(* a storage access, or the part of a critical section between two storage *)
(* accesses.                                                               *)
(***************************************************************************)
\* the values the threads write: two per variant, both unlike the initial one
ThreadValues(a) == IF a.tag = "Integer" THEN {0, 2} ELSE {<<>>, <<"1", "1">>}

ThreadInit ==
    /\ \E type \in {"integer", "string"} :
          /\ fs = MakeFs(Dir, Dir, "Setting", type, TRUE)
          /\ attr = Some(attribute(fs, Root, "Setting").res.val)
    /\ current_value_cache = None
    /\ auth = None
    /\ ret = NoCall
    /\ last = "init"
    /\ touched = {}
    /\ before = NoContext
    /\ NoThreadInCall
    /\ NoApplication

\* thread t moves on to position to
Goto(t, to) == pc' = [pc EXCEPT ![t] = to]

\* current_value(): the thread enters current_value_cache_or
BeginRead(t) ==
    /\ pc[t] = "idle"
    /\ Goto(t, "lock")
    /\ UNCHANGED <<fs, attr, current_value_cache, auth, ret, touched, last, before, status, app,
                   lock, fetched>>

\* self.current_value_cache.lock().unwrap(), then lock.as_ref(): a hit
\* returns the clone and drops the guard, a miss goes on to the closure with
\* the guard held
Lock(t) ==
    /\ pc[t] = "lock"
    /\ lock = 0
    /\ IF IsSome(current_value_cache)
       THEN Goto(t, "idle") /\ UNCHANGED lock
       ELSE Goto(t, "f") /\ lock' = t
    /\ UNCHANGED <<fs, attr, current_value_cache, auth, ret, touched, last, before, status, app,
                   fetched>>

\* let value = f()?: the closure reads and decodes current_value; an error
\* returns and drops the guard
Closure(t) ==
    /\ pc[t] = "f"
    /\ \E r \in {ReadCurrentValue(fs, attr[1])} :
           IF IsOk(r)
           THEN /\ fetched' = [fetched EXCEPT ![t] = Some(r.val)]
                /\ Goto(t, "replace")
                /\ UNCHANGED lock
           ELSE /\ Goto(t, "idle")
                /\ lock' = 0
                /\ UNCHANGED fetched
    /\ UNCHANGED <<fs, attr, current_value_cache, auth, ret, touched, last, before, status, app>>

\* lock.replace(value.clone()); Ok(value): the guard is dropped on return
Replace(t) ==
    /\ pc[t] = "replace"
    /\ current_value_cache' = fetched[t]
    /\ fetched' = [fetched EXCEPT ![t] = None]
    /\ lock' = 0
    /\ Goto(t, "idle")
    /\ UNCHANGED <<fs, attr, auth, ret, touched, last, before, status, app>>

\* write_current_value(v): the storage write, made without the mutex
Write(t, v) ==
    /\ pc[t] = "idle"
    /\ fs' = write_attribute_property(fs, attr[1].common_attribute.path,
                                      PROPERTY_CURRENT_VALUE, EncodeValue(attr[1], v)).fs
    /\ Goto(t, "clear")
    /\ UNCHANGED <<attr, current_value_cache, auth, ret, touched, last, before, status, app,
                   lock, fetched>>

\* a clear that takes the cache without waiting for the mutex
Clear_unlocked(t) ==
    /\ pc[t] = "clear"
    /\ current_value_cache' = clear_current_value_cache(current_value_cache)
    /\ Goto(t, "idle")
    /\ UNCHANGED <<fs, attr, auth, ret, touched, last, before, status, app, lock, fetched>>

\* clear_current_value_cache: lock().unwrap().take() in one statement, the
\* guard dropped at its end
Clear(t) ==
    /\ pc[t] = "clear"
    /\ lock = 0
    /\ current_value_cache' = clear_current_value_cache(current_value_cache)
    /\ Goto(t, "idle")
    /\ UNCHANGED <<fs, attr, auth, ret, touched, last, before, status, app, lock, fetched>>

ThreadStep(t) ==
    \/ BeginRead(t)
    \/ Lock(t)
    \/ Closure(t)
    \/ Replace(t)
    \/ \E v \in ThreadValues(attr[1]) : Write(t, v)
    \/ Clear(t)

ThreadNext == \E t \in Threads : ThreadStep(t)

ThreadSpec == ThreadInit /\ [][ThreadNext]_vars

(***************************************************************************)
(* Claims checked under ThreadSpec.                                        *)
(***************************************************************************)
\* thread t is inside a call
InCall(t) == pc[t] # "idle"

\* the states the claim allows: the mutex is held by exactly the thread that
\* is between the miss and the end of its read, whenever a thread is inside
\* a call some thread inside a call can take a step, and when every call has
\* returned the cache is empty or holds the decoding of the stored
\* current_value
CacheCoherent ==
    /\ lock \in Threads \cup {0}
    /\ \A t \in Threads : (pc[t] \in {"f", "replace"}) <=> (lock = t)
    /\ (\E t \in Threads : InCall(t)) =>
           \E t \in Threads : InCall(t) /\ ENABLED ThreadStep(t)
    /\ (\A t \in Threads : ~InCall(t)) =>
           \/ current_value_cache = None
           \/ Ok(current_value_cache[1]) =
                  StatedDecoding(attr[1].tag,
                                 trim_end_matches(fs[AttrCurrentValuePath].content))

\* the cache changes in a step of the thread that holds the mutex, or in a
\* step that finds the mutex free and takes it
UnderLock ==
    current_value_cache' # current_value_cache =>
        \/ lock = 0
        \/ pc'[lock] # pc[lock]

\* C16: in every interleaving of current_value and write_current_value calls
\* of the threads the cache is read and modified only under its mutex, no
\* call deadlocks, and once all calls have returned the cache is empty or
\* equal to the decoding of the stored current_value
C16_CacheCoherentUnderThreads == []CacheCoherent /\ [][UnderLock]_vars

\* every call has returned, a write has replaced the initial value by 2 and
\* a read has cached it
C16_Witness ==
    /\ \A t \in Threads : ~InCall(t)
    /\ fs[AttrCurrentValuePath] = File(<<"2">>)
    /\ current_value_cache = Some(2)

(***************************************************************************)
(* RootSpec: a valid root whose pending_reboot file is absent or holds any *)
(* short content, beside a base location that is absent, a regular file or *)
(* a directory holding devices of every shape; roots are detected,         *)
(* directories are listed and pending_reboot is read.                      *)
(***************************************************************************)
Devices == {"thinklmi", "dell-wmi-sysman"}
\* what a device entry of the base is: nothing, a regular file, a directory
\* holding both subdirectories, only attributes, or two regular files of
\* those names
DeviceShapes == {"absent", "file", "root", "attributes-only", "files"}

BasePaths ==
    {PATH_SYSFS_FIRMWARE_ATTRIBUTES}
    \cup {Append(PATH_SYSFS_FIRMWARE_ATTRIBUTES, n) :
              n \in {PATH_ATTRIBUTES, PATH_AUTHENTICATIONS} \cup Devices}
    \cup {PATH_SYSFS_FIRMWARE_ATTRIBUTES \o <<d, n>> :
              d \in Devices, n \in {PATH_ATTRIBUTES, PATH_AUTHENTICATIONS}}

\* the node at path p of a base of kind base whose own subdirectories are
\* attributes and authentications and whose devices have the given shapes
BaseNode(p, base, attributes, authentications, shape) ==
    LET depth == Len(p) - Len(PATH_SYSFS_FIRMWARE_ATTRIBUTES)
    IN  IF depth = 0 THEN base
        ELSE IF base # Dir THEN Absent
        ELSE IF depth = 1
        THEN IF p[Len(p)] = PATH_ATTRIBUTES THEN attributes
             ELSE IF p[Len(p)] = PATH_AUTHENTICATIONS THEN authentications
             ELSE IF shape[p[Len(p)]] = "absent" THEN Absent
             ELSE IF shape[p[Len(p)]] = "file" THEN File(<<>>)
             ELSE Dir
        ELSE IF shape[p[Len(p) - 1]] = "root" THEN Dir
        ELSE IF shape[p[Len(p) - 1]] = "files" THEN File(<<>>)
        ELSE IF shape[p[Len(p) - 1]] = "attributes-only" /\ p[Len(p)] = PATH_ATTRIBUTES
        THEN Dir
        ELSE Absent

PendingNodes == {Absent} \cup {File(c) : c \in StrsUpTo({"1", "0", SYSFS_END_LINE}, ExtLen)}

RootInit ==
    /\ \E pending \in PendingNodes, base \in NodeKinds,
          attributes \in {Absent, Dir}, authentications \in {Absent, Dir},
          shape \in [Devices -> DeviceShapes] :
          fs = [p \in AllPaths \cup BasePaths |->
                   IF p \in BasePaths
                   THEN BaseNode(p, base, attributes, authentications, shape)
                   ELSE IF p = <<PATH_ATTRIBUTES, "pending_reboot">> THEN pending
                   ELSE MakeFs(Dir, Dir, "Setting", "string", TRUE)[p]]
    /\ attr = None
    /\ current_value_cache = None
    /\ auth = None
    /\ ret = NoCall
    /\ last = "init"
    /\ touched = {}
    /\ before = NoContext
    /\ NoThreadInCall
    /\ NoApplication

\* autodetect_root(): it returns a list, never an error
AutodetectRoot ==
    /\ Called("autodetect_root", <<>>, Ok(autodetect_root(fs)),
              {PATH_SYSFS_FIRMWARE_ATTRIBUTES})
    /\ UNCHANGED <<fs, attr, current_value_cache, auth>>

\* the paths directories_names is called on: directories, a regular file, an
\* absent entry and a name the filesystem does not know
ListTargets ==
    {<<PATH_ATTRIBUTES>>, <<PATH_AUTHENTICATIONS>>, <<PATH_ATTRIBUTES, "pending_reboot">>,
     <<PATH_ATTRIBUTES, "BootOrder">>, PATH_SYSFS_FIRMWARE_ATTRIBUTES, <<"nowhere">>}

DirectoriesNames(path) ==
    /\ Called("directories_names", path, directories_names(fs, path),
              directories_names_touched(fs, path))
    /\ UNCHANGED <<fs, attr, current_value_cache, auth>>

RootNext ==
    \/ AutodetectRoot
    \/ \E path \in ListTargets : DirectoriesNames(path)
    \/ AttributesNames
    \/ PendingReboot

RootSpec == RootInit /\ [][RootNext]_vars

(***************************************************************************)
(* Claims checked under RootSpec.                                          *)
(***************************************************************************)
PendingRebootPath == <<PATH_ATTRIBUTES, "pending_reboot">>

\* the content is 1 followed by line terminators only, so that the value
\* read from it is exactly 1
HoldsOne(content) ==
    /\ Len(content) > 0
    /\ content[1] = "1"
    /\ \A i \in 2..Len(content) : content[i] = SYSFS_END_LINE

\* C17: on a valid root pending_reboot returns MissingFile when
\* attributes/pending_reboot is absent, Ok(true) when the value read from it
\* is exactly 1 and Ok(false) for every other value
C17_PendingRebootIffOne ==
    last = "pending_reboot" =>
        ret.res = IF fs[PendingRebootPath] = Absent
                  THEN Err("MissingFile", PendingRebootPath)
                  ELSE Ok(HoldsOne(fs[PendingRebootPath].content))

\* pending_reboot holds the two characters 1 0: the value is not 1 and the
\* answer is false
C17_Witness ==
    /\ last = "pending_reboot"
    /\ fs[PendingRebootPath] = File(<<"1", "0">>)
    /\ ret.res = Ok(FALSE)

\* the place of an entry name in the order read_dir yields the entries
OrderOf(name) == CHOOSE k \in 1..Len(ReadDirOrder) : ReadDirOrder[k] = name
\* the entries named by the last components of the listed items appear once
\* each and in enumeration order
InEnumerationOrder(list, component) ==
    \A i, j \in 1..Len(list) :
        i < j => OrderOf(list[i][component]) < OrderOf(list[j][component])

\* the immediate subdirectories of the base that pass root validation
ValidSubdirectories ==
    {p \in BasePaths :
        /\ Len(p) = Len(PATH_SYSFS_FIRMWARE_ATTRIBUTES) + 1
        /\ fs[p].kind = "dir"
        /\ is_firmware_attributes_root(fs, p)}

\* C19: autodetect_root returns a list and no error: the empty list when the
\* base does not exist, the base alone when the base passes root
\* validation, and otherwise the immediate subdirectories of the base that
\* pass root validation, each once, in enumeration order
C19_AutodetectRoot ==
    last = "autodetect_root" =>
        /\ IsOk(ret.res)
        /\ IF fs[PATH_SYSFS_FIRMWARE_ATTRIBUTES] = Absent
           THEN ret.res.val = <<>>
           ELSE IF is_firmware_attributes_root(fs, PATH_SYSFS_FIRMWARE_ATTRIBUTES)
           THEN ret.res.val = <<PATH_SYSFS_FIRMWARE_ATTRIBUTES>>
           ELSE /\ {ret.res.val[i] : i \in 1..Len(ret.res.val)} = ValidSubdirectories
                /\ InEnumerationOrder(ret.res.val, Len(PATH_SYSFS_FIRMWARE_ATTRIBUTES) + 1)

\* a base that holds attributes only, a device with both subdirectories and
\* a device that is a regular file: the first device alone is returned
C19_Witness ==
    /\ last = "autodetect_root"
    /\ fs[Append(PATH_SYSFS_FIRMWARE_ATTRIBUTES, PATH_ATTRIBUTES)] = Dir
    /\ fs[Append(PATH_SYSFS_FIRMWARE_ATTRIBUTES, PATH_AUTHENTICATIONS)] = Absent
    /\ fs[Append(PATH_SYSFS_FIRMWARE_ATTRIBUTES, "thinklmi")] = File(<<>>)
    /\ ret.res = Ok(<<Append(PATH_SYSFS_FIRMWARE_ATTRIBUTES, "dell-wmi-sysman")>>)

\* the names of the immediate children of path that are directories
ChildDirectories(path) ==
    {ReadDirOrder[k] : k \in {i \in 1..Len(ReadDirOrder) :
        /\ Append(path, ReadDirOrder[i]) \in DOMAIN fs
        /\ fs[Append(path, ReadDirOrder[i])].kind = "dir"}}

ReadReturned == last' = "current_value"

\* C22: a current_value() that fails found the cache empty and leaves it
\* empty, and returns MissingFile when current_value is absent and the
\* decoding error of the stored value otherwise; every current_value() on an
\* empty cache, one after a failed read included, returns what storage
\* decodes to at that moment
C22_FailedReadLeavesCacheEmpty ==
    [][ReadReturned =>
          /\ ~IsOk(ret'.res) =>
                /\ current_value_cache = None /\ current_value_cache' = None
                /\ ret'.res.tag = IF fs[AttrCurrentValuePath].kind = "absent"
                                  THEN "MissingFile" ELSE "ParseIntError"
                /\ ret'.res.tag = "ParseIntError" => attr[1].tag = "Integer"
          /\ current_value_cache = None =>
                ret'.res = IF fs[AttrCurrentValuePath].kind = "absent"
                           THEN Err("MissingFile", AttrCurrentValuePath)
                           ELSE StatedDecoding(attr[1].tag,
                                    trim_end_matches(fs[AttrCurrentValuePath].content))]_vars

\* an Integer whose read failed with ParseIntError, whose storage the
\* firmware driver then replaced, and whose next read succeeded
C22_Witness ==
    /\ last = "current_value" /\ IsOk(ret.res)
    /\ IsSome(attr) /\ attr[1].tag = "Integer"
    /\ before.op = "current_value" /\ ~before.ok /\ before.ext
    /\ current_value_cache = Some(ret.res.val)

\* the number of occurrences of d in s
RECURSIVE Occurrences(_, _)
Occurrences(s, d) ==
    IF Len(s) = 0 THEN 0
    ELSE (IF s[1] = d THEN 1 ELSE 0) + Occurrences(Tail(s), d)

StatedDelimiter(tag) == IF tag = "OrderedList" THEN ";" ELSE ":"

\* C26: a current_value() of an OrderedList or EnumerationList that succeeds
\* returns at least one element; read from storage it returns one element
\* more than the value read has delimiters, and the one empty string when
\* the value read is empty
C26_ListNeverEmpty ==
    [][(ReadReturned /\ IsOk(ret'.res)
          /\ attr[1].tag \in {"OrderedList", "EnumerationList"}) =>
          /\ Len(ret'.res.val) >= 1
          /\ current_value_cache = None =>
                LET read == trim_end_matches(fs[AttrCurrentValuePath].content)
                IN  /\ Len(ret'.res.val) =
                           Occurrences(read, StatedDelimiter(attr[1].tag)) + 1
                    /\ read = <<>> => ret'.res.val = <<<<>>>>]_vars

\* an OrderedList whose stored current_value is empty, read as the list of
\* the one empty string
C26_Witness ==
    /\ last = "current_value"
    /\ IsSome(attr) /\ attr[1].tag = "OrderedList"
    /\ fs[AttrCurrentValuePath] = File(<<>>)
    /\ ret.res = Ok(<<<<>>>>)

(***************************************************************************)
(* The Status record of the application: one message and the reboot flag   *)
(* behind one mutex.  A report takes the lock on entry and holds it to its *)
(* return, so that a report is one step.                                   *)
(***************************************************************************)
\* a report that keeps an error message over a later success
handle_result_keeping(inner, result) ==
    IF IsOk(result)
    THEN [inner |-> inner, res |-> Some(result.val)]
    ELSE [inner |-> [inner EXCEPT !.message = StatusError(result)], res |-> None]

\* Status::handle_result: the record it leaves and the Option it returns
handle_result(inner, result) ==
    IF IsOk(result)
    THEN [inner |-> IF inner.message.kind = "Error"
                    THEN [inner EXCEPT !.message = StatusOk]
                    ELSE inner,
          res |-> Some(result.val)]
    ELSE [inner |-> [inner EXCEPT !.message = StatusError(result)], res |-> None]

\* Status::handle_result_with_message
handle_result_with_message(inner, result, message) ==
    IF IsOk(result)
    THEN [inner |-> [inner EXCEPT !.message = StatusMessage(message)],
          res |-> Some(result.val)]
    ELSE [inner |-> [inner EXCEPT !.message = StatusError(result)], res |-> None]

\* Application::check_pending_reboot
check_pending_reboot(f, root, inner) ==
    [inner EXCEPT !.reboot_required = (pending_reboot(f, root).res = Ok(TRUE))]

\* the results reported: a success and one error of every kind
Reports ==
    {Ok(<<>>)} \cup
    {Err(kind, <<>>) : kind \in {"MissingFile", "MissingDirectory", "IOError",
                                 "ParseIntError", "UnsupportedAttributeType",
                                 "VariantNotFount", "InvalidRoot"}}

\* the messages the application reports a success with
Messages == {"Logged in", "Read only mode", "Logged out", "Rebooting...",
             "Root", "The Only Root", "Value updated"}

StatusInit ==
    /\ \E pending \in PendingNodes :
          fs = [p \in AllPaths |->
                   IF p = <<PATH_ATTRIBUTES, "pending_reboot">> THEN pending
                   ELSE MakeFs(Dir, Dir, "Setting", "string", TRUE)[p]]
    /\ attr = None
    /\ current_value_cache = None
    /\ auth = None
    /\ ret = NoCall
    /\ last = "init"
    /\ touched = {}
    /\ before = NoContext
    /\ NoThreadInCall
    /\ NoApplication

\* what a report or a check leaves of the other variables
Reported(op, message, result) ==
    /\ ret' = Call(op, message, result)
    /\ last' = op
    /\ before' = Before
    /\ touched' = {}
    /\ UNCHANGED <<fs, attr, current_value_cache, auth, lock, pc, fetched, app>>

HandleResult(result) ==
    /\ status' = handle_result(status, result).inner
    /\ Reported("handle_result", <<>>, result)

HandleResultWithMessage(result, message) ==
    /\ status' = handle_result_with_message(status, result, message).inner
    /\ Reported("handle_result_with_message", message, result)

CheckPendingReboot ==
    /\ status' = check_pending_reboot(fs, Root, status)
    /\ Reported("check_pending_reboot", <<>>, pending_reboot(fs, Root).res)

StatusNext ==
    \/ \E result \in Reports : HandleResult(result)
    \/ \E result \in Reports, message \in Messages :
          HandleResultWithMessage(result, message)
    \/ CheckPendingReboot

StatusSpec == StatusInit /\ [][StatusNext]_vars

(***************************************************************************)
(* Claims checked under StatusSpec.                                        *)
(***************************************************************************)
\* the step is a report, through either operation
IsReport == last' \in {"handle_result", "handle_result_with_message"}

\* C23: a success reported through handle_result turns an Error message
\* into Ok and leaves every other message in place; a failure reported
\* through either operation sets the message to the Error of that failure;
\* nothing but a report changes the message, so that the message is an Error
\* exactly when the most recent report was a failure, and then it is the
\* Error of that failure
C23_StatusReflectsLastReport ==
    [][/\ (last' = "handle_result" /\ IsOk(ret'.res)) =>
             status'.message = IF status.message.kind = "Error"
                               THEN StatusOk ELSE status.message
       /\ (IsReport /\ ~IsOk(ret'.res)) =>
             status'.message = StatusError(ret'.res)
       /\ (IsReport /\ IsOk(ret'.res)) => status'.message.kind # "Error"
       /\ ~IsReport => status'.message = status.message
       /\ IsReport => status'.reboot_required = status.reboot_required]_vars

\* a success reported through handle_result after a failure, the flag of a
\* pending reboot standing: the Error has become Ok
C23_Witness ==
    /\ last = "handle_result" /\ IsOk(ret.res)
    /\ before.op \in {"handle_result", "handle_result_with_message"} /\ ~before.ok
    /\ status.message = StatusOk
    /\ status.reboot_required

(***************************************************************************)
(* The application: SelectRoot, BiosAdminAuthentication and BiosAttributes *)
(* with its AccessMode.  A panic aborts the process.                       *)
(***************************************************************************)
\* the outcome of a call that panicked on err
Panic(err) == [tag |-> "panic", val |-> err]
Aborted == AppState("aborted", "none", None, <<>>)
Exited == AppState("exited", "none", None, <<>>)

\* AccessMode::write_access
write_access(access_mode) ==
    CASE access_mode = "ReadOnly" -> FALSE
      [] OTHER -> TRUE

\* filter_map(|name| attribute(path, name).ok()).map(Control::new): the
\* controls of the attributes that load, in the order of the names
ControlOf(made) ==
    IF IsOk(made) THEN <<[attribute |-> made.val, cache |-> None]>> ELSE <<>>

RECURSIVE Controls(_, _, _)
Controls(f, path, names) ==
    IF names = <<>> THEN <<>>
    ELSE ControlOf(attribute(f, path, Head(names)).res)
             \o Controls(f, path, Tail(names))

\* attributes_names(path).unwrap() and what follows it
BiosAttributesOf(f, path, access_mode, held, inner, names) ==
    IF ~IsOk(names)
    THEN [res |-> Panic(names), inner |-> inner]
    ELSE [res |-> Ok(AppState("BiosAttributes", access_mode, held,
                              Controls(f, path, names.val))),
          inner |-> check_pending_reboot(f, path, inner)]

\* Application::bios_attributes: the state made, or the panic, and the
\* Status record left
bios_attributes(f, path, access_mode, held, inner) ==
    BiosAttributesOf(f, path, access_mode, held, inner,
                     attributes_names(f, path).res)

\* for name in authentication_names { .. }: the first authentication that
\* fails to load ends the call, the first enabled password authentication
\* is the one to log in with, and with none the root is not protected
RECURSIVE ForAuthentications(_, _, _, _)
RECURSIVE ForAuthentication(_, _, _, _, _)
ForAuthentication(f, path, names, inner, made) ==
    IF ~IsOk(made) THEN [res |-> made, inner |-> inner]
    ELSE IF made.val.is_enabled /\ made.val.mechanism = <<"password">>
    THEN [res |-> Ok(AppState("BiosAdminAuthentication", "none",
                              Some(made.val), <<>>)),
          inner |-> inner]
    ELSE ForAuthentications(f, path, Tail(names), inner)

ForAuthentications(f, path, names, inner) ==
    IF names = <<>>
    THEN bios_attributes(f, path, "ReadWrite", None, inner)
    ELSE ForAuthentication(f, path, names, inner,
                           authentication(f, path, Head(names)).res)

BiosAdminAuthenticationOf(f, path, inner, names) ==
    IF ~IsOk(names)
    THEN [res |-> names, inner |-> inner]
    ELSE ForAuthentications(f, path, names.val, inner)

\* Application::bios_admin_authentication
bios_admin_authentication(f, path, inner) ==
    BiosAdminAuthenticationOf(f, path, inner, authentications_names(f, path).res)

\* a write that is made whatever the current value is
ControlWritten(inner, written) ==
    [fs |-> written.fs, cache |-> written.cache, res |-> Some(written.res),
     inner |-> handle_result_with_message(inner, written.res, "Value updated").inner]

control_write_current_value_always(f, a, cache, inner, value) ==
    ControlWritten(inner,
        write_current_value(f, a, current_value_cache_or(f, a, cache).cache, value))

ControlWrite(f, a, inner, value, current) ==
    IF IsOk(current.res) /\ value = current.res.val
    THEN [fs |-> f, cache |-> current.cache, res |-> None, inner |-> inner]
    ELSE ControlWritten(inner, write_current_value(f, a, current.cache, value))

\* Control::write_current_value: the filesystem, the cache and the Status
\* record it leaves, and the result of the write_current_value it called,
\* if it called it
control_write_current_value(f, a, cache, inner, value) ==
    ControlWrite(f, a, inner, value, current_value_cache_or(f, a, cache))

(***************************************************************************)
(* AppSpec: the application on the one root autodetect_root found, while   *)
(* the firmware driver stores values and is unloaded underneath.  The root *)
(* holds the attribute Setting, of a type that loads or of none, and may   *)
(* hold BootOrder, a directory without properties; the authentication      *)
(* Admin is enabled or not and its current_password takes a write or       *)
(* refuses it.                                                             *)
(***************************************************************************)
AppSettingPath == Append(AttrDir("Setting"), PROPERTY_CURRENT_VALUE)
AppPasswordPath == Append(AuthDir("Admin"), PROPERTY_CURRENT_PASSWORD)

AppInit ==
    /\ \E attributes \in {Dir, File(<<>>)}, type \in {"string", "integer", "bogus"},
          boot \in {Absent, Dir}, enabled \in {"0", "1"},
          password \in {File(<<>>), ReadOnly(<<>>)} :
          fs = [p \in AllPaths |->
                   IF attributes.kind = "dir" /\ p = AttrDir("BootOrder") THEN boot
                   ELSE IF p = Append(AuthDir("Admin"), "is_enabled")
                   THEN File(Line(enabled))
                   ELSE IF p = AppPasswordPath THEN password
                   ELSE MakeFs(attributes, Dir, "Setting", type, TRUE)[p]]
    /\ attr = None
    /\ current_value_cache = None
    /\ auth = None
    /\ ret = NoCall
    /\ last = "init"
    /\ touched = {}
    /\ before = NoContext
    /\ NoThreadInCall
    /\ status = StatusDefault
    /\ app = AppState("SelectRoot", "none", None, <<>>)

\* what a handler of the application records: the call it made, its result
\* and the paths it wrote
Handled(op, arg, res, paths) ==
    /\ ret' = Call(op, arg, res)
    /\ last' = op
    /\ touched' = paths
    /\ before' = NoContext
    /\ UNCHANGED <<attr, current_value_cache, auth, lock, pc, fetched>>

\* if let Some(state) = status.handle_result_with_message(made, message)
\* { *self = state; }, where making the state may have panicked
Become(made, message) ==
    IF made.res.tag = "panic"
    THEN /\ app' = Aborted
         /\ status' = made.inner
    ELSE /\ app' = IF IsOk(made.res) THEN made.res.val ELSE app
         /\ status' = handle_result_with_message(made.inner, made.res, message).inner

\* update() on SelectRoot with the one root
SelectRoot ==
    /\ app.state = "SelectRoot"
    /\ \E made \in {bios_admin_authentication(fs, Root, status)} :
           /\ Become(made, "The Only Root")
           /\ Handled("select_root", <<>>, made.res, {})
    /\ UNCHANGED fs

\* bios_admin_authentication_ui: Login is clicked with the password typed
Login(password) ==
    /\ app.state = "BiosAdminAuthentication"
    /\ \E written \in {authenticate_with_password(fs, app.authentication[1], password)} :
           /\ fs' = written.fs
           /\ Handled("login", password, written.result,
                      {Append(app.authentication[1].path, PROPERTY_CURRENT_PASSWORD)})
           /\ IF IsOk(written.result)
              THEN Become(bios_attributes(written.fs, Root, "ReadWriteAuthenticated",
                                          app.authentication,
                                          handle_result(status, written.result).inner),
                          "Logged in")
              ELSE /\ status' = handle_result(status, written.result).inner
                   /\ app' = app

\* bios_admin_authentication_ui: Proceed without Authentication is clicked
Proceed ==
    /\ app.state = "BiosAdminAuthentication"
    /\ \E made \in {bios_attributes(fs, Root, "ReadOnly", None, status)} :
           /\ Become(made, "Read only mode")
           /\ Handled("proceed", <<>>, made.res, {})
    /\ UNCHANGED fs

\* header_bar: Logout is clicked; the result of the write is dropped
Logout ==
    /\ app.state = "BiosAttributes"
    /\ app.access_mode = "ReadWriteAuthenticated"
    /\ \E written \in {authenticate_with_password(fs, app.authentication[1], <<>>)} :
           /\ fs' = written.fs
           /\ Handled("logout", <<>>, written.result,
                      {Append(app.authentication[1].path, PROPERTY_CURRENT_PASSWORD)})
           /\ Become(bios_admin_authentication(written.fs, Root, status), "Logged out")

\* header_bar: Login is clicked in read only mode
LoginAgain ==
    /\ app.state = "BiosAttributes"
    /\ app.access_mode = "ReadOnly"
    /\ \E made \in {bios_admin_authentication(fs, Root, status)} :
           /\ Become(made, "Logged out")
           /\ Handled("login_again", <<>>, made.res, {})
    /\ UNCHANGED fs

\* an exit that logs out whatever the state holds an authentication
on_exit_any(f, state) ==
    IF IsSome(state.authentication)
    THEN [written |-> TRUE,
          fs |-> authenticate_with_password(f, state.authentication[1], <<>>).fs]
    ELSE [written |-> FALSE, fs |-> f]

\* Application::on_exit: whether it wrote, and the filesystem it leaves
on_exit(f, state) ==
    IF state.state = "BiosAttributes" /\ state.access_mode = "ReadWriteAuthenticated"
    THEN [written |-> TRUE,
          fs |-> authenticate_with_password(f, state.authentication[1], <<>>).fs]
    ELSE [written |-> FALSE, fs |-> f]

OnExit ==
    /\ app.state \in {"SelectRoot", "BiosAdminAuthentication", "BiosAttributes"}
    /\ \E left \in {on_exit(fs, app)} :
           /\ fs' = left.fs
           /\ Handled("on_exit", <<>>, Ok(<<>>),
                      IF left.written
                      THEN {Append(app.authentication[1].path, PROPERTY_CURRENT_PASSWORD)}
                      ELSE {})
    /\ app' = Exited
    /\ UNCHANGED status

\* what the user may leave in the widget of a control: nothing new, or a
\* value the widget lets them enter
Inputs(control) == {None} \cup {Some(v) : v \in WriteValues(control.attribute)}

\* Control::ui of control i within attributes_edit_form: the current value is
\* read and reported; when it is there, the form is enabled and the widget
\* has changed, the value is written and pending_reboot is checked
ControlUi(i, input) ==
    /\ app.state = "BiosAttributes"
    /\ \E read \in {current_value_cache_or(fs, app.controls[i].attribute,
                                           app.controls[i].cache)} :
         IF IsOk(read.res) /\ IsSome(input) /\ write_access(app.access_mode)
         THEN \E done \in {control_write_current_value(
                               fs, app.controls[i].attribute, read.cache,
                               handle_result(status, read.res).inner, input[1])} :
                 /\ fs' = done.fs
                 /\ app' = [app EXCEPT !.controls[i].cache = done.cache]
                 /\ status' = check_pending_reboot(done.fs, Root, done.inner)
                 /\ Handled("control", <<i, input>>,
                            IF IsSome(done.res) THEN done.res[1] ELSE read.res,
                            IF IsSome(done.res)
                            THEN {Append(app.controls[i].attribute.common_attribute.path,
                                         PROPERTY_CURRENT_VALUE)}
                            ELSE {})
         ELSE /\ fs' = fs
              /\ app' = [app EXCEPT !.controls[i].cache = read.cache]
              /\ status' = handle_result(status, read.res).inner
              /\ Handled("control", <<i, None>>, read.res, {})

\* the firmware driver stores a new current_value of Setting
ExternalStore(content) ==
    /\ fs[AppSettingPath].kind = "file"
    /\ fs' = [fs EXCEPT ![AppSettingPath] = File(content)]
    /\ fs' # fs
    /\ last' = "external"
    /\ UNCHANGED <<attr, current_value_cache, auth, ret, touched, before, lock, pc, fetched,
                   status, app>>

\* the firmware driver is unloaded: the root is left without entries
DriverUnloaded ==
    /\ fs' = [p \in DOMAIN fs |-> Absent]
    /\ fs' # fs
    /\ last' = "external"
    /\ UNCHANGED <<attr, current_value_cache, auth, ret, touched, before, lock, pc, fetched,
                   status, app>>

AppNext ==
    \/ SelectRoot
    \/ \E password \in Passwords : Login(password)
    \/ Proceed
    \/ Logout
    \/ LoginAgain
    \/ OnExit
    \/ \E i \in 1..Len(app.controls) : \E input \in Inputs(app.controls[i]) :
          ControlUi(i, input)
    \/ \E content \in {Line("1"), <<"1">>, <<"x">>} : ExternalStore(content)
    \/ DriverUnloaded

AppSpec == AppInit /\ [][AppNext]_vars

(***************************************************************************)
(* Claims checked under AppSpec.                                           *)
(***************************************************************************)
\* C21: no error aborts the process: whatever the root holds and whenever
\* the firmware driver is unloaded, every handler returns, with its error
\* in the status message
C21_NoErrorIsFatal == app.state # "aborted"

\* the root holds an authentication that is enabled and of the password
\* mechanism
EnabledPasswordAuthentication(f) ==
    \E n \in AuthNames :
        /\ f[AuthDir(n)].kind = "dir"
        /\ f[Append(AuthDir(n), "is_enabled")].kind = "file"
        /\ HoldsOne(f[Append(AuthDir(n), "is_enabled")].content)
        /\ f[Append(AuthDir(n), "mechanism")].kind = "file"
        /\ trim_end_matches(f[Append(AuthDir(n), "mechanism")].content) = <<"password">>

\* the step takes the application into the access mode
Enters(access_mode) ==
    app'.access_mode = access_mode /\ app.access_mode # access_mode

\* C24: the application enters ReadWriteAuthenticated only by a Login whose
\* authenticate_with_password on the authentication shown succeeded, and
\* then holds that authentication; it enters ReadOnly only by Proceed
\* without Authentication, and ReadWrite only when the root holds no
\* enabled password authentication; write_access is false in ReadOnly and
\* true in the two other modes, and no control writes in ReadOnly; Logout
\* and exit write the empty password only in ReadWriteAuthenticated, to the
\* authentication logged in with
C24_SessionStateMachine ==
    [][/\ Enters("ReadWriteAuthenticated") =>
             /\ last' = "login" /\ IsOk(ret'.res)
             /\ app.state = "BiosAdminAuthentication"
             /\ app'.authentication = app.authentication
             /\ fs'[Append(app.authentication[1].path, PROPERTY_CURRENT_PASSWORD)]
                    = File(ret'.arg)
       /\ Enters("ReadOnly") => last' = "proceed"
       /\ Enters("ReadWrite") => ~EnabledPasswordAuthentication(fs')
       /\ app'.state = "BiosAttributes" =>
             /\ app'.access_mode \in {"ReadOnly", "ReadWrite", "ReadWriteAuthenticated"}
             /\ write_access(app'.access_mode) = (app'.access_mode # "ReadOnly")
       /\ (last' = "control" /\ touched' # {}) => app.access_mode # "ReadOnly"
       /\ (last' \in {"logout", "on_exit"} /\ touched' # {}) =>
             /\ app.state = "BiosAttributes"
             /\ app.access_mode = "ReadWriteAuthenticated"
             /\ touched' = {Append(app.authentication[1].path, PROPERTY_CURRENT_PASSWORD)}]_vars

\* a Login with the password 1 has succeeded: the application is in
\* BiosAttributes with ReadWriteAuthenticated, holds the authentication it
\* showed, and its controls can be changed
C24_Witness ==
    /\ last = "login" /\ IsOk(ret.res) /\ ret.arg = <<"1">>
    /\ app.state = "BiosAttributes"
    /\ app.access_mode = "ReadWriteAuthenticated"
    /\ IsSome(app.authentication)
    /\ fs[AppPasswordPath] = File(<<"1">>)
    /\ write_access(app.access_mode)

\* the step is a Control::ui in which Control::write_current_value is called
ControlChanged == last' = "control" /\ IsSome(ret'.arg[2])
\* the control of the step, as the step finds it, and the value handed over
ChangedControl == app.controls[ret'.arg[1]]
ChangedValue == ret'.arg[2][1]
ChangedPath == Append(ChangedControl.attribute.common_attribute.path, PROPERTY_CURRENT_VALUE)

\* what attr.current_value() returns to Control::write_current_value: the
\* cached value when the control finds its cache populated, whatever storage
\* holds, and otherwise the value that Control::ui has just read from storage
\* and left in the cache
ComparedValue ==
    IF IsSome(ChangedControl.cache) THEN ChangedControl.cache[1]
    ELSE ReadCurrentValue(fs, ChangedControl.attribute).val

\* the message after Control::ui reported its read, which succeeded
MessageAtCall == IF status.message.kind = "Error" THEN StatusOk ELSE status.message

====
